---- MODULE Spec2Model ----
(***************************************************************************)
(* Gateway supervisor and control-plane proxy of the OpenClaw Railway      *)
(* wrapper (src/src/server.js, second variant, lines 1905-5710).           *)
(*                                                                         *)
(* Node runs the wrapper on one event loop.  Every action below is one     *)
(* synchronous turn of that loop: the code between two awaits of a         *)
(* handler, a timer or a child-process callback.  A settled promise        *)
(* resumes its awaiters in microtasks of the same turn, so the turn that   *)
(* settles the in-flight start also runs each awaiting handler up to its   *)
(* response.                                                               *)
(***************************************************************************)
EXTENDS Integers, Sequences, FiniteSets, TLC

\* ------------------------------------------------------------------ bounds

\* request slots that may be in flight at once
MaxSlots == 2
\* requests accepted in one behaviour
MaxRequests == 3
\* gateway child processes spawned in one behaviour
MaxProcs == 2
\* imports among the requests the slots hold
MaxImports == 1
\* runCmd invocations in one behaviour
MaxCmds == 2
\* files on disk before the export
MaxFiles == 2
\* requests under /setup in one behaviour
MaxGateRequests == 3
\* clock steps in one behaviour
MaxAdvances == 2
\* characters of an archive entry path
MaxPathLen == 3
\* pieces of a subprocess output
MaxOutLen == 2
\* poll intervals a pending probe is followed past the readiness deadline
MaxOverrun == 2

\* ------------------------------------------------------------------ constants

\* config/raw: the longest content accepted, in characters
ConfigMaxChars == 500000
\* express.json({ limit: "1mb" }), in bytes
JsonLimitBytes == 1048576

Slots == 1..MaxSlots
Procs == 1..MaxProcs

\* ------------------------------------------------------------------ paths

\* A path is a sequence of segments; abs says whether it starts with "/".
Path(abs, segs) == [abs |-> abs, segs |-> segs]

DataRoot == Path(TRUE, <<"data">>)
Cwd == Path(TRUE, <<"app">>)

\* path.resolve: relative paths are taken from the working directory, then
\* "." is dropped and ".." removes the segment before it (never above "/").
RECURSIVE Normalize(_, _)
Normalize(segs, acc) ==
  IF segs = <<>> THEN acc
  ELSE LET s == Head(segs) IN
       IF s = "." THEN Normalize(Tail(segs), acc)
       ELSE IF s = ".."
            THEN Normalize(Tail(segs),
                           IF acc = <<>> THEN acc ELSE SubSeq(acc, 1, Len(acc) - 1))
            ELSE Normalize(Tail(segs), Append(acc, s))

Resolve(p) ==
  IF p.abs THEN Path(TRUE, Normalize(p.segs, <<>>))
  ELSE Path(TRUE, Normalize(Cwd.segs \o p.segs, <<>>))

IsPrefix(s, t) == Len(s) <= Len(t) /\ SubSeq(t, 1, Len(s)) = s

\* a variant that compares the paths as written, without resolving them
isUnderDirRaw(p, root) == p.abs /\ IsPrefix(root.segs, p.segs)

isUnderDir(p, root) == IsPrefix(Resolve(root).segs, Resolve(p).segs)

\* The state directories the wrapper can end up with: the volume default and
\* the home fallback.
DirVolume == Path(TRUE, <<"data", ".openclaw">>)
DirHome == Path(TRUE, <<"home", "user", ".openclaw">>)
StateDirs == {DirVolume, DirHome}

WorkspaceOf(d) == Path(d.abs, Append(d.segs, "workspace"))
\* an operator-supplied OPENCLAW_WORKSPACE_DIR that is written under /data
\* and resolves outside it
DirWorkEscape == Path(TRUE, <<"data", "..", "srv", "workspace">>)

\* what findWritableStateDir / findWritableWorkspaceDir resolve at startup
StartupDirs ==
  {<<DirVolume, WorkspaceOf(DirVolume)>>, <<DirVolume, DirWorkEscape>>,
   <<DirHome, WorkspaceOf(DirHome)>>}

\* ------------------------------------------------------------------ state

VARIABLES
  \* --- supervisor (server.js 2471-2472, observability.js metrics.gateway)
  gatewayProc,      \* 0 (null) or the child process the handle refers to
  gatewayStarting,  \* TRUE while the in-flight start promise is set
  startCount, restartCount, crashCount,
  \* --- child processes (the operating system's side)
  procState,        \* per process: "none", "alive", "exited"
  termSent,         \* per process: a SIGTERM was sent by the wrapper
  portOwner,        \* 0 or the process listening on the loopback port
  \* --- file system
  STATE_DIR, WORKSPACE_DIR,
  configFile,       \* openclaw.json exists at configPath()
  backups,          \* number of openclaw.json.bak-* files written
  tmpFiles,         \* number of import temp files currently on disk
  \* --- requests in flight
  pc,               \* per slot: where the handler is ("idle", an await, "done")
  kind,             \* per slot: the handler that runs in it
  resp,             \* per slot: the response sent
  ens,              \* per slot: what its ensureGatewayRunning call came to
  attempt,          \* per slot: the start attempt that call fell into (0: none)
  bumped,           \* per slot: restartCount increments made by the handler
  rc0,              \* per slot: restartCount when the request arrived
  reqCount,         \* requests accepted so far
  attempts,         \* start attempts begun so far
  \* --- administration gate (server.js 2670-2683, 2306)
  now,              \* Date.now(), in ms since the wrapper started
  authAttempts,     \* rateLimitState.authAttempts: per client an entry or NoEntry
  requestCounts,    \* rateLimitState.requestCounts: per client an entry or NoEntry
  SETUP_PASSWORD,   \* "" when unset or blank
  last,             \* what the latest request under /setup came to
  streak,           \* per client: the run of recorded failures since the last success
  advances,         \* clock steps taken so far
  gateCount,        \* requests under /setup so far
  \* --- archive extraction (tar.x in /setup/import)
  tarPos,           \* "first", "second", "end" or "failed"
  written,          \* the entry paths written under /data
  dropped,          \* the number of entries the filter dropped
  \* --- subprocess output on its way into a response
  outEndpoint, outRaw, outBody,
  \* --- backup export and import (server.js 5452-5597)
  disk,             \* the files on the file system: records of path and bytes
  archive,          \* the entries of the archive the last export produced
  bkPos,            \* "start", "exported", "imported", "partial" or "refused"
  tree0,            \* the files the last export read
  before,           \* the files on disk when the last import began
  \* --- a request handed to the proxy (server.js 5600-5632)
  fwd,              \* per request: has the proxy failed, has the client a response
  fwdErrors,        \* proxy errors logged
  \* --- runCmd invocations (server.js 3945-3998)
  cmds,             \* per invocation: the subprocess, its timers, the result
  \* --- the readiness wait of a start attempt (server.js 2478-2500)
  poll              \* its position, the time since it began, the peer on the port

supVars == <<gatewayProc, gatewayStarting, startCount, restartCount, crashCount>>
procVars == <<procState, termSent, portOwner>>
fsVars == <<STATE_DIR, WORKSPACE_DIR, configFile, backups, tmpFiles>>
reqVars == <<pc, kind, resp, ens, attempt, bumped, rc0, reqCount, attempts>>
coreVars == <<supVars, procVars, fsVars, reqVars>>
gateVars == <<now, authAttempts, requestCounts, SETUP_PASSWORD, last, streak,
              advances, gateCount>>
tarVars == <<tarPos, written, dropped>>
outVars == <<outEndpoint, outRaw, outBody>>
bakVars == <<disk, archive, bkPos, tree0, before>>
fwdVars == <<fwd, fwdErrors>>
cmdVars == <<cmds>>
pollVars == <<poll>>
edgeVars == <<gateVars, tarVars, outVars, bakVars, fwdVars, cmdVars, pollVars>>
vars == <<coreVars, edgeVars>>

\* ------------------------------------------------------------------ helpers

\* a response: the status code and the pieces its body is put together from
Resp(status, body) == [status |-> status, body |-> body]
NoResp == Resp(0, <<>>)

ErrNotReady == "Error: Gateway did not become ready in time"
ErrDirs == "Error: Cannot create required directories"
NotReadyPrefix == "Gateway not ready: "

isConfigured == configFile

healthGateway == IF gatewayProc # 0 THEN "running" ELSE "stopped"

NextProc == Cardinality({p \in Procs : procState[p] # "none"}) + 1

\* What ensureDirectoriesWithFallback (2106-2172) can do: return, or throw.
\* The directories are those resolved at startup; the re-resolution after a
\* permission failure is left to the directory probe and is not followed here.
EnsureDirs == {[throws |-> t] : t \in BOOLEAN}

\* a variant that starts the gateway without asking whether the product is
\* configured
ensureGatewayRunningAnyway(conf, gp, dr) ==
  IF gp # 0 THEN [out |-> "ok", spawn |-> FALSE, began |-> FALSE]
  ELSE IF gatewayStarting THEN [out |-> "await", spawn |-> FALSE, began |-> FALSE]
  ELSE IF dr.throws THEN [out |-> "throw", spawn |-> FALSE, began |-> TRUE]
  ELSE [out |-> "await", spawn |-> TRUE, began |-> TRUE]

\* a variant that starts a gateway whether or not the handle is set
ensureGatewayRunningAgain(conf, gp, dr) ==
  IF ~conf THEN [out |-> "notConfigured", spawn |-> FALSE, began |-> FALSE]
  ELSE IF gatewayStarting THEN [out |-> "await", spawn |-> FALSE, began |-> FALSE]
  ELSE IF dr.throws THEN [out |-> "throw", spawn |-> FALSE, began |-> TRUE]
  ELSE [out |-> "await", spawn |-> TRUE, began |-> TRUE]

\* ensureGatewayRunning up to its await, called when isConfigured() is conf and
\* the handle is gp.
\* out: what the caller gets ("await": it waits for the in-flight start);
\* spawn: startGateway spawned a child; began: a start attempt was begun.
ensureGatewayRunning(conf, gp, dr) ==
  IF ~conf THEN [out |-> "notConfigured", spawn |-> FALSE, began |-> FALSE]
  ELSE IF gp # 0 THEN [out |-> "ok", spawn |-> FALSE, began |-> FALSE]
  ELSE IF gatewayStarting THEN [out |-> "await", spawn |-> FALSE, began |-> FALSE]
  ELSE IF dr.throws THEN [out |-> "throw", spawn |-> FALSE, began |-> TRUE]
  ELSE [out |-> "await", spawn |-> TRUE, began |-> TRUE]

trackGatewayStart == startCount' = startCount + 1
trackGatewayRestart == restartCount' = restartCount + 1
trackGatewayCrash == crashCount' = crashCount + 1

\* a variant whose in-flight reference outlives a startGateway that threw
startGatewayKeepsRef(gp, e) ==
  /\ e.spawn => NextProc \in Procs
  /\ gatewayProc' = IF e.spawn THEN NextProc ELSE gp
  /\ procState' = IF e.spawn THEN [procState EXCEPT ![NextProc] = "alive"] ELSE procState
  /\ IF e.spawn THEN trackGatewayStart ELSE startCount' = startCount
  /\ gatewayStarting' = (gatewayStarting \/ e.began)
  /\ attempts' = IF e.began THEN attempts + 1 ELSE attempts

\* startGateway's effect on the supervisor inside ensureGatewayRunning (e is
\* the record above, gp the handle at the call)
startGateway(gp, e) ==
  /\ e.spawn => NextProc \in Procs
  /\ gatewayProc' = IF e.spawn THEN NextProc ELSE gp
  /\ procState' = IF e.spawn THEN [procState EXCEPT ![NextProc] = "alive"] ELSE procState
  /\ IF e.spawn THEN trackGatewayStart ELSE startCount' = startCount
  /\ gatewayStarting' = (gatewayStarting \/ e.spawn)
  /\ attempts' = IF e.began THEN attempts + 1 ELSE attempts

\* The response a handler of kind k sends once its ensureGatewayRunning call
\* has returned or thrown with outcome o.
Failed(o) == o \in {"throw", "timeout"}
ErrOf(o) == IF o = "throw" THEN ErrDirs ELSE ErrNotReady

RespAfterEnsure(k, o) ==
  CASE k \in {"proxy", "proxySetup"} ->
         IF Failed(o) THEN Resp(503, <<NotReadyPrefix, ErrOf(o)>>)
         ELSE Resp(200, <<"proxied">>)
    [] k = "restart" ->
         IF Failed(o) THEN Resp(500, <<"ok:false">>) ELSE Resp(200, <<"ok:true">>)
    [] k = "start" ->
         IF Failed(o) THEN Resp(500, <<"ok:false">>)
         ELSE IF o = "ok" THEN Resp(200, <<"ok:true">>) ELSE Resp(200, <<"ok:false">>)
    [] k = "configRaw" ->
         IF Failed(o) THEN Resp(500, <<"ok:false">>) ELSE Resp(200, <<"ok:true">>)
    [] k = "import" ->
         IF Failed(o) THEN Resp(500, <<ErrOf(o)>>) ELSE Resp(200, <<"OK - imported">>)
    [] k = "upgrade" ->
         IF Failed(o) THEN Resp(0, <<"socket destroyed">>) ELSE Resp(101, <<"proxy.ws">>)
    [] OTHER -> NoResp

\* handler r of kind k answers with response x
Respond(r, k, x) ==
  /\ kind' = [kind EXCEPT ![r] = k]
  /\ pc' = [pc EXCEPT ![r] = "done"]
  /\ resp' = [resp EXCEPT ![r] = x]

\* handler r of kind k is parked at the await named w
Park(r, k, w) ==
  /\ kind' = [kind EXCEPT ![r] = k]
  /\ pc' = [pc EXCEPT ![r] = w]
  /\ resp' = [resp EXCEPT ![r] = NoResp]

\* handler r has not called ensureGatewayRunning (yet)
NoEnsure(r) ==
  /\ ens' = [ens EXCEPT ![r] = "none"]
  /\ attempt' = [attempt EXCEPT ![r] = 0]

\* a handler r of kind k goes on after its ensureGatewayRunning call
AfterEnsure(r, k, e) ==
  /\ ens' = [ens EXCEPT ![r] = e.out]
  /\ attempt' = [attempt EXCEPT ![r] =
                   IF e.began THEN attempts + 1
                   ELSE IF gatewayStarting THEN attempts ELSE 0]
  /\ IF e.out = "await"
     THEN Park(r, k, "awaitStart")
     ELSE Respond(r, k, RespAfterEnsure(k, e.out))

\* a new request takes the lowest slot never used, or else the lowest slot
\* whose request has been answered
Free(r) ==
  /\ reqCount < MaxRequests
  /\ \/ /\ pc[r] = "idle"
        /\ \A q \in Slots : q < r => pc[q] # "idle"
     \/ /\ pc[r] = "done"
        /\ \A q \in Slots : pc[q] # "idle" /\ (q < r => pc[q] # "done")
Accept(r) ==
  /\ reqCount' = reqCount + 1
  /\ bumped' = [bumped EXCEPT ![r] = 0]
  /\ rc0' = [rc0 EXCEPT ![r] = restartCount]

\* ------------------------------------------------------------------ requests

\* app.use catch-all (5617-5632) for a request whose path is outside /setup
\* (setup = FALSE) or under /setup without a registered route (setup = TRUE)
ProxyKind(setup) == IF setup THEN "proxySetup" ELSE "proxy"

catchAll(r, setup, dr) ==
  /\ Free(r) /\ Accept(r)
  /\ IF ~isConfigured
     THEN /\ Respond(r, ProxyKind(setup),
                     IF setup THEN Resp(200, <<"proxied">>)
                     ELSE Resp(302, <<"/setup">>))
          /\ NoEnsure(r)
          /\ UNCHANGED <<supVars, procState, attempts>>
     ELSE LET e == ensureGatewayRunning(isConfigured, gatewayProc, dr) IN
          /\ startGateway(gatewayProc, e)
          /\ AfterEnsure(r, ProxyKind(setup), e)
          /\ UNCHANGED <<restartCount, crashCount>>
  /\ UNCHANGED <<termSent, portOwner, fsVars>>

\* a request that reaches the catch-all
Proxy(r, setup, dr) == catchAll(r, setup, dr) /\ UNCHANGED edgeVars

\* a variant of the upgrade handler without the isConfigured() test
UpgradeUngated(r, dr) ==
  /\ Free(r) /\ Accept(r)
  /\ LET e == ensureGatewayRunning(isConfigured, gatewayProc, dr) IN
     /\ startGateway(gatewayProc, e)
     /\ AfterEnsure(r, "upgrade", e)
  /\ UNCHANGED <<restartCount, crashCount, termSent, portOwner, fsVars>>
  /\ UNCHANGED edgeVars

\* server.on("upgrade") (5686-5698)
Upgrade(r, dr) ==
  /\ Free(r) /\ Accept(r)
  /\ IF ~isConfigured
     THEN /\ Respond(r, "upgrade", Resp(0, <<"socket destroyed">>))
          /\ NoEnsure(r)
          /\ UNCHANGED <<supVars, procState, attempts>>
     ELSE LET e == ensureGatewayRunning(isConfigured, gatewayProc, dr) IN
          /\ startGateway(gatewayProc, e)
          /\ AfterEnsure(r, "upgrade", e)
          /\ UNCHANGED <<restartCount, crashCount>>
  /\ UNCHANGED <<termSent, portOwner, fsVars>>
  /\ UNCHANGED edgeVars

\* console/run gateway.start (4398-4401)
ConsoleStart(r, dr) ==
  /\ Free(r) /\ Accept(r)
  /\ LET e == ensureGatewayRunning(isConfigured, gatewayProc, dr) IN
     /\ startGateway(gatewayProc, e)
     /\ AfterEnsure(r, "start", e)
  /\ UNCHANGED <<restartCount, crashCount, termSent, portOwner, fsVars>>
  /\ UNCHANGED edgeVars

\* gatewayProc.kill("SIGTERM") followed by the start of sleep(750): handler r
\* of kind k is parked until the timer fires
KillAndSleep(r, k, w) ==
  /\ termSent' = [termSent EXCEPT ![gatewayProc] = TRUE]
  /\ Park(r, k, w)
  /\ NoEnsure(r)
  /\ UNCHANGED <<supVars, procState, portOwner, attempts>>

\* restartGateway (2578-2591) up to its first await, for a handler of kind k,
\* called when isConfigured() is conf
restartGateway(r, k, conf, dr) ==
  IF gatewayProc # 0
  THEN KillAndSleep(r, k, "sleep")
  ELSE LET e == ensureGatewayRunning(conf, gatewayProc, dr) IN
       /\ startGateway(gatewayProc, e)
       /\ AfterEnsure(r, k, e)
       /\ UNCHANGED <<restartCount, crashCount, termSent, portOwner>>

\* a variant that does not count the restart, as the file's earlier
\* restartGateway (389-401)
restartGatewayResumeUncounted(r, dr) ==
  LET e == ensureGatewayRunning(isConfigured, 0, dr) IN
  /\ startGateway(0, e)
  /\ restartCount' = restartCount
  /\ bumped' = [bumped EXCEPT ![r] = bumped[r] + 1]
  /\ AfterEnsure(r, kind[r], e)
  /\ UNCHANGED <<crashCount, termSent, portOwner>>

\* restartGateway after sleep(750): clear the handle, count, ensure
restartGatewayResume(r, dr) ==
  LET e == ensureGatewayRunning(isConfigured, 0, dr) IN
  /\ startGateway(0, e)
  /\ trackGatewayRestart
  /\ bumped' = [bumped EXCEPT ![r] = bumped[r] + 1]
  /\ AfterEnsure(r, kind[r], e)
  /\ UNCHANGED <<crashCount, termSent, portOwner>>

\* console/run gateway.restart (4386-4389)
ConsoleRestart(r, dr) ==
  /\ Free(r) /\ Accept(r)
  /\ restartGateway(r, "restart", isConfigured, dr)
  /\ UNCHANGED fsVars
  /\ UNCHANGED edgeVars

\* console/run gateway.stop (4390-4397)
ConsoleStop(r) ==
  /\ Free(r) /\ Accept(r)
  /\ IF gatewayProc # 0
     THEN KillAndSleep(r, "stop", "sleep")
     ELSE /\ Respond(r, "stop", Resp(200, <<"ok:true">>))
          /\ NoEnsure(r)
          /\ UNCHANGED <<supVars, procVars, attempts>>
  /\ UNCHANGED fsVars
  /\ UNCHANGED edgeVars

\* the sleep(750) timer of handler r fires
SleepDone(r, dr) ==
  /\ pc[r] = "sleep"
  /\ IF kind[r] = "stop"
     THEN /\ gatewayProc' = 0
          /\ Respond(r, "stop", Resp(200, <<"ok:true">>))
          /\ UNCHANGED <<gatewayStarting, startCount, restartCount, crashCount,
                         procVars, ens, attempt, bumped, attempts>>
     ELSE restartGatewayResume(r, dr)
  /\ UNCHANGED <<fsVars, rc0, reqCount>>
  /\ UNCHANGED edgeVars

\* ------------------------------------------------------------------ config

\* Sizes of a config/raw body: n characters of content, each encoded in b
\* bytes of UTF-8, inside {"content":"..."}.
ContentLens == {0, ConfigMaxChars, ConfigMaxChars + 1, 600001}
BytesPerChar == {1, 3}
BodyBytes(n, b) == n * b + 14

\* a variant that leaves the size check to the body parser's limit
TooLargeForParser(n) == n > JsonLimitBytes

TooLarge(n) == n > ConfigMaxChars

\* app.post("/setup/api/config/raw") (5273-5306) behind express.json (2768)
ConfigRaw(r, n, b, dr) ==
  /\ Free(r) /\ Accept(r)
  /\ UNCHANGED edgeVars
  /\ UNCHANGED <<STATE_DIR, WORKSPACE_DIR, tmpFiles>>
  /\ IF BodyBytes(n, b) > JsonLimitBytes \/ TooLarge(n) \/ dr.throws
     THEN /\ Respond(r, "configRaw",
                     IF BodyBytes(n, b) > JsonLimitBytes
                     THEN Resp(413, <<"request entity too large">>)
                     ELSE IF TooLarge(n) THEN Resp(413, <<"Config too large">>)
                     ELSE Resp(500, <<"ok:false">>))
          /\ NoEnsure(r)
          /\ UNCHANGED <<supVars, procVars, attempts, configFile, backups>>
     ELSE /\ backups' = IF configFile THEN backups + 1 ELSE backups
          /\ configFile' = TRUE
          \* isConfigured() is true now; startGateway finds the directories as
          \* this turn has just left them
          /\ restartGateway(r, "configRaw", TRUE, [throws |-> FALSE])

\* app.post("/setup/api/reset") (5436-5450)
Reset(r) ==
  /\ Free(r) /\ Accept(r)
  /\ configFile' = FALSE
  /\ Respond(r, "reset", Resp(200, <<"OK - deleted config file">>))
  /\ NoEnsure(r)
  /\ UNCHANGED <<supVars, procVars, attempts,
                 STATE_DIR, WORKSPACE_DIR, backups, tmpFiles>>
  /\ UNCHANGED edgeVars

\* ------------------------------------------------------------------ import

\* what readBodyBuffer (5522-5538) can deliver
Bodies == {"archive", "empty", "too large"}

\* app.post("/setup/import") (5542-5561): the precondition and the stop
ImportBegin(r) ==
  /\ Cardinality({q \in Slots : kind[q] = "import"}) < MaxImports
  /\ Free(r) /\ Accept(r)
  /\ NoEnsure(r)
  /\ IF ~isUnderDir(STATE_DIR, DataRoot) \/ ~isUnderDir(WORKSPACE_DIR, DataRoot)
     THEN /\ Respond(r, "import", Resp(400, <<"Import is only supported under /data">>))
          /\ UNCHANGED <<termSent>>
     ELSE IF gatewayProc # 0
          THEN /\ termSent' = [termSent EXCEPT ![gatewayProc] = TRUE]
               /\ Park(r, "import", "stopSleep")
          ELSE /\ Park(r, "import", "body")
               /\ UNCHANGED <<termSent>>
  /\ UNCHANGED <<supVars, procState, portOwner, attempts, fsVars>>
  /\ UNCHANGED edgeVars

\* (5559-5560) the sleep(750) after the stop has elapsed
ImportStopped(r) ==
  /\ pc[r] = "stopSleep"
  /\ gatewayProc' = 0
  /\ pc' = [pc EXCEPT ![r] = "body"]
  /\ UNCHANGED <<gatewayStarting, startCount, restartCount, crashCount, procVars,
                 fsVars, kind, resp, ens, attempt, bumped, rc0, reqCount, attempts>>
  /\ UNCHANGED edgeVars

\* (5563-5582) the body has been read; the temp file is written and tar.x
\* starts extracting into /data (writeOk: fs.writeFileSync did not throw)
ImportBody(r, body, writeOk) ==
  /\ pc[r] = "body"
  /\ IF body = "archive" /\ writeOk
     THEN /\ tmpFiles' = tmpFiles + 1
          /\ pc' = [pc EXCEPT ![r] = "extract"]
          /\ UNCHANGED <<kind, resp>>
     ELSE /\ Respond(r, "import",
                     IF body = "empty" THEN Resp(400, <<"Empty body">>)
                     ELSE IF body = "too large" THEN Resp(500, <<"Error: payload too large">>)
                     ELSE Resp(500, <<"Error: write failed">>))
          /\ UNCHANGED <<tmpFiles>>
  /\ UNCHANGED <<supVars, procVars, STATE_DIR, WORKSPACE_DIR, configFile, backups,
                 ens, attempt, bumped, rc0, reqCount, attempts>>
  /\ UNCHANGED edgeVars

\* (5572-5592) tar.x has settled: ok says whether it resolved, cfg whether it
\* wrote the configuration file (the archive's .openclaw/openclaw.json)
ImportExtracted(r, ok, cfg, dr) ==
  /\ pc[r] = "extract"
  /\ UNCHANGED edgeVars
  /\ UNCHANGED <<STATE_DIR, WORKSPACE_DIR, backups, rc0, reqCount, bumped>>
  /\ configFile' = (configFile \/ (cfg /\ STATE_DIR = DirVolume))
  /\ IF ~ok
     THEN /\ Respond(r, "import", Resp(500, <<"Error: extraction failed">>))
          /\ UNCHANGED <<supVars, procVars, tmpFiles, ens, attempt, attempts>>
     ELSE /\ tmpFiles' = tmpFiles - 1
          /\ IF configFile'
             THEN restartGateway(r, "import", TRUE, dr)
             ELSE /\ Respond(r, "import", Resp(200, <<"OK - imported">>))
                  /\ UNCHANGED <<supVars, procVars, ens, attempt, attempts>>

\* ------------------------------------------------------------------ child processes

\* the child starts listening on the loopback port
ProcListen(p) ==
  /\ procState[p] = "alive"
  /\ portOwner = 0
  /\ portOwner' = p
  /\ UNCHANGED <<supVars, procState, termSent, fsVars, reqVars>>
  /\ UNCHANGED edgeVars

ExitKinds == {"clean", "code", "signal"}

\* a variant that counts every exit as a crash
ProcExitCounted(p, how) ==
  /\ procState[p] = "alive"
  /\ procState' = [procState EXCEPT ![p] = "exited"]
  /\ portOwner' = IF portOwner = p THEN 0 ELSE portOwner
  /\ trackGatewayCrash
  /\ gatewayProc' = 0
  /\ UNCHANGED <<gatewayStarting, startCount, restartCount, termSent, fsVars, reqVars>>
  /\ UNCHANGED edgeVars

\* gatewayProc.on("exit") (2550-2557)
ProcExit(p, how) ==
  /\ procState[p] = "alive"
  /\ procState' = [procState EXCEPT ![p] = "exited"]
  /\ portOwner' = IF portOwner = p THEN 0 ELSE portOwner
  /\ IF how # "clean" THEN trackGatewayCrash ELSE crashCount' = crashCount
  /\ gatewayProc' = 0
  /\ UNCHANGED <<gatewayStarting, startCount, restartCount, termSent, fsVars, reqVars>>
  /\ UNCHANGED edgeVars

\* gatewayProc.on("error") (2544-2548): the child could not be spawned
ProcError(p) ==
  /\ procState[p] = "alive"
  /\ portOwner # p
  /\ procState' = [procState EXCEPT ![p] = "exited"]
  /\ gatewayProc' = 0
  /\ UNCHANGED <<gatewayStarting, startCount, restartCount, crashCount,
                 termSent, portOwner, fsVars, reqVars>>
  /\ UNCHANGED edgeVars

\* ------------------------------------------------------------------ the in-flight start

\* The start promise settles with outcome o; its finally handler clears
\* gatewayStarting (2570-2572) and every awaiting handler runs on to its
\* response.
Settle(o) ==
  /\ gatewayStarting
  /\ gatewayStarting' = FALSE
  /\ pc' = [r \in Slots |-> IF pc[r] = "awaitStart" THEN "done" ELSE pc[r]]
  /\ ens' = [r \in Slots |-> IF pc[r] = "awaitStart" THEN o ELSE ens[r]]
  /\ resp' = [r \in Slots |-> IF pc[r] = "awaitStart"
                             THEN RespAfterEnsure(kind[r], o) ELSE resp[r]]
  /\ UNCHANGED <<gatewayProc, startCount, restartCount, crashCount, procVars, fsVars,
                 kind, attempt, bumped, rc0, reqCount, attempts>>
  /\ UNCHANGED edgeVars

\* waitForGatewayReady (2478-2500): some probe got an HTTP response
StartReady == portOwner # 0 /\ Settle("ok")

\* a variant of the deadline that gives the child up: signal and clear
StartTimeoutGiveUp ==
  /\ gatewayStarting
  /\ gatewayStarting' = FALSE
  /\ pc' = [r \in Slots |-> IF pc[r] = "awaitStart" THEN "done" ELSE pc[r]]
  /\ ens' = [r \in Slots |-> IF pc[r] = "awaitStart" THEN "timeout" ELSE ens[r]]
  /\ resp' = [r \in Slots |-> IF pc[r] = "awaitStart"
                             THEN RespAfterEnsure(kind[r], "timeout") ELSE resp[r]]
  /\ termSent' = [p \in Procs |-> termSent[p] \/ p = gatewayProc]
  /\ gatewayProc' = 0
  /\ UNCHANGED <<startCount, restartCount, crashCount, procState, portOwner, fsVars,
                 kind, attempt, bumped, rc0, reqCount, attempts>>
  /\ UNCHANGED edgeVars

\* waitForGatewayReady: the 20 s deadline passed without a response
StartTimeout == Settle("timeout")

\* ------------------------------------------------------------------ administration gate

\* RATE_LIMIT_CONFIG (2677-2683)
maxAuthAttempts == 5
authLockoutMs == 15 * 60 * 1000
authWindowMs == 5 * 60 * 1000
maxRequestsPerMinute == 30
requestWindowMs == 60 * 1000

Clients == {"10.0.0.1", "10.0.0.2"}

\* the password the operator set, and what Authorization headers carry
Password == "pw"
NoHeader == [scheme |-> "", encoded |-> FALSE, password |-> ""]
Headers ==
  {NoHeader,
   [scheme |-> "Bearer", encoded |-> TRUE, password |-> Password],
   [scheme |-> "Basic", encoded |-> FALSE, password |-> ""],
   [scheme |-> "Basic", encoded |-> TRUE, password |-> "guess"],
   [scheme |-> "Basic", encoded |-> TRUE, password |-> Password]}

\* the header carries the operator's password
Correct(h) == h.scheme = "Basic" /\ h.encoded /\ h.password = Password

\* a client without an entry in a map
NoEntry == [none |-> TRUE]

\* a variant that rounds down
FloorDiv(a, b) == a \div b

\* Math.ceil(a / b) for a >= 0 and b > 0
CeilDiv(a, b) == (a + b - 1) \div b

\* a variant that never finds a client locked
checkRateLimitOpen(st, t) == [allowed |-> TRUE, retryAfterMs |-> 0]

\* checkRateLimit (2685-2695) for the auth entry st at time t
checkRateLimit(st, t) ==
  IF st # NoEntry /\ st.lockedUntil # 0 /\ t < st.lockedUntil
  THEN [allowed |-> FALSE, retryAfterMs |-> st.lockedUntil - t]
  ELSE [allowed |-> TRUE, retryAfterMs |-> 0]

\* a variant that records nothing
recordAuthFailureNone(st, t) ==
  IF st = NoEntry THEN [attempts |-> 0, lastAttempt |-> 0, lockedUntil |-> 0] ELSE st

\* a variant that keeps counting across the attempt window
recordAuthFailureNoReset(st, t) ==
  LET s0 == IF st = NoEntry
            THEN [attempts |-> 0, lastAttempt |-> 0, lockedUntil |-> 0] ELSE st
      s2 == [s0 EXCEPT !.attempts = @ + 1, !.lastAttempt = t]
  IN IF s2.attempts >= maxAuthAttempts
     THEN [s2 EXCEPT !.lockedUntil = t + authLockoutMs]
     ELSE s2

\* recordAuthFailure (2697-2715): the entry it stores
recordAuthFailure(st, t) ==
  LET s0 == IF st = NoEntry
            THEN [attempts |-> 0, lastAttempt |-> 0, lockedUntil |-> 0] ELSE st
      s1 == IF t - s0.lastAttempt > authWindowMs THEN [s0 EXCEPT !.attempts = 0] ELSE s0
      s2 == [s1 EXCEPT !.attempts = @ + 1, !.lastAttempt = t]
  IN IF s2.attempts >= maxAuthAttempts
     THEN [s2 EXCEPT !.lockedUntil = t + authLockoutMs]
     ELSE s2

\* a variant that leaves the entry in the map
recordAuthSuccessKeep(st) == st

\* recordAuthSuccess (2717-2719)
recordAuthSuccess(st) == NoEntry

\* Array.prototype.filter, keeping the order
RECURSIVE Filter(_, _, _)
Filter(seq, t, w) ==
  IF seq = <<>> THEN <<>>
  ELSE IF t - Head(seq) < w THEN <<Head(seq)>> \o Filter(Tail(seq), t, w)
       ELSE Filter(Tail(seq), t, w)

\* checkRequestRateLimit (2721-2739) for the request entry st at time t: its
\* answer and the entry the map holds afterwards
checkRequestRateLimit(st, t) ==
  LET fresh == st = NoEntry \/ t - st.windowStart > requestWindowMs
      s0 == IF fresh THEN [requests |-> <<>>, windowStart |-> t] ELSE st
      s1 == [s0 EXCEPT !.requests = Filter(@, t, requestWindowMs)]
  IN IF Len(s1.requests) >= maxRequestsPerMinute
     THEN [allowed |-> FALSE,
           retryAfterMs |-> requestWindowMs - (t - s1.requests[1]),
           state |-> IF fresh THEN st ELSE s1]
     ELSE [allowed |-> TRUE, retryAfterMs |-> 0,
           state |-> [s1 EXCEPT !.requests = Append(@, t)]]

\* what a request under /setup came to
Outcome(c, route, h, status, retryAfter, passed, served, audit) ==
  [client |-> c, route |-> route, basic |-> (h.scheme = "Basic" /\ h.encoded),
   correct |-> Correct(h), status |-> status,
   retryAfter |-> retryAfter, passed |-> passed, served |-> served, audit |-> audit]
NoOutcome == Outcome("", "", NoHeader, 0, 0, FALSE, "none", <<>>)

\* the run of failures recorded for a client: its length, the time of the
\* latest one and the time of the one that made it maxAuthAttempts long
NoStreak == [n |-> 0, last |-> 0, lockAt |-> 0]
StreakAfterFailure(k, t) ==
  LET n == IF k.n > 0 /\ t - k.last <= authWindowMs THEN k.n + 1 ELSE 1
  IN [n |-> n, last |-> t, lockAt |-> IF n = maxAuthAttempts THEN t ELSE k.lockAt]

\* a variant that counts the request before it looks for a lockout
requireSetupAuthCountFirst(c, h) ==
  LET rateCheck == checkRateLimit(authAttempts[c], now)
      requestRateCheck == checkRequestRateLimit(requestCounts[c], now)
  IN
  /\ requestCounts' = [requestCounts EXCEPT ![c] = requestRateCheck.state]
  /\ IF ~requestRateCheck.allowed
     THEN /\ last' = Outcome(c, "gated", h, 429,
                             CeilDiv(requestRateCheck.retryAfterMs, 1000),
                             FALSE, "none", <<"REQUEST_RATE_LIMITED">>)
          /\ UNCHANGED <<authAttempts, streak>>
     ELSE IF ~rateCheck.allowed
     THEN /\ last' = Outcome(c, "gated", h, 429, CeilDiv(rateCheck.retryAfterMs, 1000),
                             FALSE, "none", <<"AUTH_RATE_LIMITED">>)
          /\ UNCHANGED <<authAttempts, streak>>
     ELSE IF SETUP_PASSWORD = ""
     THEN /\ last' = Outcome(c, "gated", h, 500, 0, FALSE, "none", <<>>)
          /\ UNCHANGED <<authAttempts, streak>>
     ELSE IF h.scheme # "Basic" \/ ~h.encoded
     THEN /\ last' = Outcome(c, "gated", h, 401, 0, FALSE, "none", <<>>)
          /\ UNCHANGED <<authAttempts, streak>>
     ELSE IF h.password # SETUP_PASSWORD
     THEN LET st == recordAuthFailure(authAttempts[c], now) IN
          /\ authAttempts' = [authAttempts EXCEPT ![c] = st]
          /\ streak' = [streak EXCEPT ![c] = StreakAfterFailure(@, now)]
          /\ last' = Outcome(c, "gated", h, 401, 0, FALSE, "none",
                             IF st.attempts >= maxAuthAttempts
                             THEN <<"AUTH_LOCKOUT", "AUTH_FAILURE">>
                             ELSE <<"AUTH_FAILURE">>)
     ELSE /\ authAttempts' = [authAttempts EXCEPT ![c] = recordAuthSuccess(@)]
          /\ streak' = [streak EXCEPT ![c] = NoStreak]
          /\ last' = Outcome(c, "gated", h, 200, 0, TRUE, "handler", <<"AUTH_SUCCESS">>)

\* a variant without the test for an unset password
requireSetupAuthUnconfigured(c, h) ==
  LET rateCheck == checkRateLimit(authAttempts[c], now)
      requestRateCheck == checkRequestRateLimit(requestCounts[c], now)
  IN
  IF ~rateCheck.allowed
  THEN /\ last' = Outcome(c, "gated", h, 429, CeilDiv(rateCheck.retryAfterMs, 1000),
                          FALSE, "none", <<"AUTH_RATE_LIMITED">>)
       /\ UNCHANGED <<authAttempts, requestCounts, streak>>
  ELSE
  /\ requestCounts' = [requestCounts EXCEPT ![c] = requestRateCheck.state]
  /\ IF ~requestRateCheck.allowed
     THEN /\ last' = Outcome(c, "gated", h, 429,
                             CeilDiv(requestRateCheck.retryAfterMs, 1000),
                             FALSE, "none", <<"REQUEST_RATE_LIMITED">>)
          /\ UNCHANGED <<authAttempts, streak>>
     ELSE IF h.scheme # "Basic" \/ ~h.encoded
     THEN /\ last' = Outcome(c, "gated", h, 401, 0, FALSE, "none", <<>>)
          /\ UNCHANGED <<authAttempts, streak>>
     ELSE IF h.password # SETUP_PASSWORD
     THEN LET st == recordAuthFailure(authAttempts[c], now) IN
          /\ authAttempts' = [authAttempts EXCEPT ![c] = st]
          /\ streak' = [streak EXCEPT ![c] = StreakAfterFailure(@, now)]
          /\ last' = Outcome(c, "gated", h, 401, 0, FALSE, "none",
                             IF st.attempts >= maxAuthAttempts
                             THEN <<"AUTH_LOCKOUT", "AUTH_FAILURE">>
                             ELSE <<"AUTH_FAILURE">>)
     ELSE /\ authAttempts' = [authAttempts EXCEPT ![c] = recordAuthSuccess(@)]
          /\ streak' = [streak EXCEPT ![c] = NoStreak]
          /\ last' = Outcome(c, "gated", h, 200, 0, TRUE, "handler", <<"AUTH_SUCCESS">>)

\* requireSetupAuth (2593-2640) for a request of client c carrying header h,
\* for a route registered with it; next() runs the route's handler
requireSetupAuth(c, h) ==
  LET rateCheck == checkRateLimit(authAttempts[c], now)
      requestRateCheck == checkRequestRateLimit(requestCounts[c], now)
  IN
  IF ~rateCheck.allowed
  THEN /\ last' = Outcome(c, "gated", h, 429, CeilDiv(rateCheck.retryAfterMs, 1000),
                          FALSE, "none", <<"AUTH_RATE_LIMITED">>)
       /\ UNCHANGED <<authAttempts, requestCounts, streak>>
  ELSE
  /\ requestCounts' = [requestCounts EXCEPT ![c] = requestRateCheck.state]
  /\ IF ~requestRateCheck.allowed
     THEN /\ last' = Outcome(c, "gated", h, 429,
                             CeilDiv(requestRateCheck.retryAfterMs, 1000),
                             FALSE, "none", <<"REQUEST_RATE_LIMITED">>)
          /\ UNCHANGED <<authAttempts, streak>>
     ELSE IF SETUP_PASSWORD = ""
     THEN /\ last' = Outcome(c, "gated", h, 500, 0, FALSE, "none", <<>>)
          /\ UNCHANGED <<authAttempts, streak>>
     ELSE IF h.scheme # "Basic" \/ ~h.encoded
     THEN /\ last' = Outcome(c, "gated", h, 401, 0, FALSE, "none", <<>>)
          /\ UNCHANGED <<authAttempts, streak>>
     ELSE IF h.password # SETUP_PASSWORD
     THEN LET st == recordAuthFailure(authAttempts[c], now) IN
          /\ authAttempts' = [authAttempts EXCEPT ![c] = st]
          /\ streak' = [streak EXCEPT ![c] = StreakAfterFailure(@, now)]
          /\ last' = Outcome(c, "gated", h, 401, 0, FALSE, "none",
                             IF st.attempts >= maxAuthAttempts
                             THEN <<"AUTH_LOCKOUT", "AUTH_FAILURE">>
                             ELSE <<"AUTH_FAILURE">>)
     ELSE /\ authAttempts' = [authAttempts EXCEPT ![c] = recordAuthSuccess(@)]
          /\ streak' = [streak EXCEPT ![c] = NoStreak]
          /\ last' = Outcome(c, "gated", h, 200, 0, TRUE, "handler", <<"AUTH_SUCCESS">>)

CountGate ==
  /\ gateCount < MaxGateRequests
  /\ gateCount' = gateCount + 1

\* a request to a route registered with requireSetupAuth (2871-5542)
GateRequest(c, h) ==
  /\ CountGate
  /\ requireSetupAuth(c, h)
  /\ UNCHANGED <<now, SETUP_PASSWORD, advances, coreVars, tarVars, outVars, bakVars, fwdVars, cmdVars, pollVars>>

\* app.get("/setup/healthz") (2869): registered without requireSetupAuth
Healthz(c) ==
  /\ CountGate
  /\ last' = Outcome(c, "healthz", NoHeader, 200, 0, FALSE, "handler", <<>>)
  /\ UNCHANGED <<now, authAttempts, requestCounts, SETUP_PASSWORD, streak, advances,
                 coreVars, tarVars, outVars, bakVars, fwdVars, cmdVars, pollVars>>

\* a request under /setup that no route matches (another path, or another
\* method of a registered path): express passes it on to the catch-all
SetupUnmatched(c, r, dr) ==
  /\ CountGate
  /\ catchAll(r, TRUE, dr)
  /\ last' = Outcome(c, "unmatched", NoHeader, resp'[r].status, 0, FALSE,
                     IF resp'[r].status = 200 THEN "proxy" ELSE "none", <<>>)
  /\ UNCHANGED <<now, authAttempts, requestCounts, SETUP_PASSWORD, streak, advances,
                 tarVars, outVars, bakVars, fwdVars, cmdVars, pollVars>>

\* the steps the clock is moved by
Deltas == {1, requestWindowMs, authWindowMs, authLockoutMs - 1}

Advance(d) ==
  /\ advances < MaxAdvances
  /\ advances' = advances + 1
  /\ now' = now + d
  /\ UNCHANGED <<authAttempts, requestCounts, SETUP_PASSWORD, last, streak, gateCount,
                 coreVars, tarVars, outVars, bakVars, fwdVars, cmdVars, pollVars>>

\* the cleanup timer (2754-2766)
Sweep ==
  /\ authAttempts' =
       [c \in Clients |->
          IF authAttempts[c] # NoEntry /\ authAttempts[c].lockedUntil # 0
             /\ now > authAttempts[c].lockedUntil + authWindowMs
          THEN NoEntry ELSE authAttempts[c]]
  /\ requestCounts' =
       [c \in Clients |->
          IF requestCounts[c] # NoEntry
             /\ now - requestCounts[c].windowStart > requestWindowMs * 2
          THEN NoEntry ELSE requestCounts[c]]
  /\ UNCHANGED <<now, SETUP_PASSWORD, last, streak, advances, gateCount,
                 coreVars, tarVars, outVars, bakVars, fwdVars, cmdVars, pollVars>>

\* ------------------------------------------------------------------ archive extraction

\* An entry path is a sequence of characters; "c" stands for the letters.
Chars == {"/", "\\", ".", ":", "c"}

RECURSIVE SeqsUpTo(_, _)
SeqsUpTo(S, n) ==
  IF n = 0 THEN {<<>>}
  ELSE LET shorter == SeqsUpTo(S, n - 1)
       IN shorter \cup {Append(q, x) : q \in {t \in shorter : Len(t) = n - 1}, x \in S}

EntryPaths == SeqsUpTo(Chars, MaxPathLen)

\* String.prototype.split("/")
RECURSIVE SplitSlash(_, _)
SplitSlash(p, cur) ==
  IF p = <<>> THEN <<cur>>
  ELSE IF Head(p) = "/" THEN <<cur>> \o SplitSlash(Tail(p), <<>>)
       ELSE SplitSlash(Tail(p), Append(cur, Head(p)))

IsLetter(ch) == ch = "c"

\* a variant that looks for ".." only at the start of the path
looksSafeTarPathLeading(p) ==
  /\ p # <<>>
  /\ ~(Head(p) = "/" \/ Head(p) = "\\")
  /\ ~(Len(p) >= 3 /\ IsLetter(p[1]) /\ p[2] = ":" /\ p[3] \in {"\\", "/"})
  /\ ~(Len(p) >= 3 /\ SubSeq(p, 1, 3) = <<".", ".", "/">>)

\* looksSafeTarPath (5511-5520)
looksSafeTarPath(p) ==
  /\ p # <<>>
  /\ ~(Head(p) = "/" \/ Head(p) = "\\")
  /\ ~(Len(p) >= 3 /\ IsLetter(p[1]) /\ p[2] = ":" /\ p[3] \in {"\\", "/"})
  /\ ~(\E i \in DOMAIN SplitSlash(p, <<>>) : SplitSlash(p, <<>>)[i] = <<".", ".">>)

\* tar.x (5572-5582) takes up the next entry of the archive, whose path is p:
\* the filter drops it, or the entry is written under /data; fails stands for
\* an entry the library cannot unpack, which ends the extraction (strict).
TarEntry(p, fails) ==
  /\ tarPos \in {"first", "second"}
  /\ IF ~looksSafeTarPath(p)
     THEN /\ dropped' = dropped + 1
          /\ tarPos' = IF tarPos = "first" THEN "second" ELSE "end"
          /\ UNCHANGED written
     ELSE IF fails
     THEN /\ tarPos' = "failed"
          /\ UNCHANGED <<written, dropped>>
     ELSE /\ written' = written \cup {p}
          /\ tarPos' = IF tarPos = "first" THEN "second" ELSE "end"
          /\ UNCHANGED dropped
  /\ UNCHANGED <<coreVars, gateVars, outVars, bakVars, fwdVars, cmdVars, pollVars>>

\* ------------------------------------------------------------------ subprocess output

\* What runCmd (3945-3998) collects from stdout and stderr is a sequence of
\* pieces: plain text, a string one of SECRET_PATTERNS matches as a whole
\* ("key"), or a label followed by a value that one of the four patterns
\* with two groups matches ("labelled").
Pieces == {"text", "key", "labelled"}

Outputs == SeqsUpTo(Pieces, MaxOutLen)

\* the replacer of redactSecrets (4223-4229)
redactPiece(x) ==
  CASE x = "key" -> "[REDACTED]"
    [] x = "labelled" -> "label[REDACTED]"
    [] OTHER -> x

\* redactSecrets (4217-4233)
redactSecrets(text) ==
  IF text = <<>> THEN text ELSE [i \in DOMAIN text |-> redactPiece(text[i])]

\* the part of the response body each endpoint makes of the output
apiStatus(out) == out
apiRun(out) == out
apiDebug(out) == out
consoleOpenclaw(out) == redactSecrets(out)
consoleDiagnose(out) == out
apiChat(out) == out
apiHealth(out) == redactSecrets(out)
pairingApprove(out) == out
pairingPending(out) == out
pairingApproveAll(out) == out

Endpoints ==
  {"status", "run", "debug", "console", "diagnose", "chat", "health",
   "pairing/approve", "pairing/pending", "pairing/approve-all"}

BodyOf(e, out) ==
  CASE e = "status" -> apiStatus(out)
    [] e = "run" -> apiRun(out)
    [] e = "debug" -> apiDebug(out)
    [] e = "console" -> consoleOpenclaw(out)
    [] e = "diagnose" -> consoleDiagnose(out)
    [] e = "chat" -> apiChat(out)
    [] e = "health" -> apiHealth(out)
    [] e = "pairing/approve" -> pairingApprove(out)
    [] e = "pairing/pending" -> pairingPending(out)
    [] e = "pairing/approve-all" -> pairingApproveAll(out)

\* an administration endpoint runs a subprocess that prints out and answers
AdminOutput(e, out) ==
  /\ outEndpoint' = e
  /\ outRaw' = out
  /\ outBody' = BodyOf(e, out)
  /\ UNCHANGED <<coreVars, gateVars, tarVars, bakVars, fwdVars, cmdVars, pollVars>>

\* ------------------------------------------------------------------ backup export and import

\* File names that tempt the archive filter; a name is one path segment.
FileNames == {"notes", "..c", "c:"}

\* the characters of a path segment, a run of letters standing as "c"
SegChars(seg) ==
  CASE seg = ".openclaw" -> <<".", "c">>
    [] seg = "..c" -> <<".", ".", "c">>
    [] seg = "c:" -> <<"c", ":">>
    [] seg = ".." -> <<".", ".">>
    [] seg = "." -> <<".">>
    [] OTHER -> <<"c">>

\* a relative path as the string tar hands to the filter
RECURSIVE JoinSlash(_)
JoinSlash(segs) ==
  IF segs = <<>> THEN <<>>
  ELSE IF Len(segs) = 1 THEN SegChars(segs[1])
       ELSE SegChars(Head(segs)) \o <<"/">> \o JoinSlash(Tail(segs))

File(path, bytes) == [path |-> path, bytes |-> bytes]

\* the operator's directories, besides those the wrapper resolves itself
BackupDirs ==
  StartupDirs \cup {<<DirVolume, Path(TRUE, <<"data", "workspace">>)>>,
                    <<DataRoot, WorkspaceOf(DataRoot)>>}

\* where files can be: in the two directories, and elsewhere on the volume
CandidatePaths ==
  {Resolve(d).segs \o <<n>> : d \in {STATE_DIR, WORKSPACE_DIR}, n \in FileNames}
    \cup {<<"data", "other">>}

\* the same for every way the directories can have been set
AllPaths ==
  UNION {{Resolve(d[i]).segs \o <<n>> : i \in 1..2, n \in FileNames} : d \in BackupDirs}
    \cup {<<"data", "other">>}

\* const underData (5471), on a resolved path
underData(p) == IsPrefix(DataRoot.segs, p.segs)

\* a variant that always archives from the file system root
exportCwdRoot(stateAbs, workspaceAbs) == Path(TRUE, <<>>)

\* export's cwd (5473-5477)
exportCwd(stateAbs, workspaceAbs) ==
  IF underData(stateAbs) /\ underData(workspaceAbs) THEN DataRoot ELSE Path(TRUE, <<>>)

\* path.relative(cwd, p) || ".", and p.replace(/^\//, "") when cwd is "/"
exportPath(cwd, p) ==
  LET rel == SubSeq(p.segs, Len(cwd.segs) + 1, Len(p.segs))
  IN IF rel = <<>> THEN <<".">> ELSE rel

\* some order in which tar.c meets the files of a set
RECURSIVE InOrder(_)
InOrder(S) ==
  IF S = {} THEN <<>>
  ELSE LET f == CHOOSE x \in S : TRUE IN <<f>> \o InOrder(S \ {f})

\* the entries tar.c makes of the files under directory p, named from cwd by
\* the path it was given
entriesOf(cwd, p) ==
  LET given == exportPath(cwd, p)
      under == {f \in disk : IsPrefix(p.segs, f.path) /\ f.path # p.segs}
  IN InOrder({File(given \o SubSeq(f.path, Len(p.segs) + 1, Len(f.path)), f.bytes)
                : f \in under})

\* app.get("/setup/export") (5452-5503)
Export ==
  /\ bkPos = "start"
  /\ LET stateAbs == Resolve(STATE_DIR)
         workspaceAbs == Resolve(WORKSPACE_DIR)
         cwd == exportCwd(stateAbs, workspaceAbs)
     IN /\ archive' = entriesOf(cwd, stateAbs) \o entriesOf(cwd, workspaceAbs)
        /\ tree0' = {f \in disk : \/ IsPrefix(stateAbs.segs, f.path)
                                  \/ IsPrefix(workspaceAbs.segs, f.path)}
  /\ bkPos' = "exported"
  /\ UNCHANGED <<disk, before>>
  /\ UNCHANGED <<coreVars, gateVars, tarVars, outVars, fwdVars, cmdVars, pollVars>>

\* Between an export and an import the volume changes: files are lost,
\* rewritten or created.
FileRemoved(path) ==
  /\ bkPos = "exported" /\ \E f \in disk : f.path = path
  /\ disk' = {f \in disk : f.path # path}
  /\ UNCHANGED <<archive, bkPos, tree0, before>>
  /\ UNCHANGED <<coreVars, gateVars, tarVars, outVars, fwdVars, cmdVars, pollVars>>

FileChanged(path) ==
  /\ bkPos = "exported" /\ File(path, "v1") \in disk
  /\ disk' = (disk \ {File(path, "v1")}) \cup {File(path, "v2")}
  /\ UNCHANGED <<archive, bkPos, tree0, before>>
  /\ UNCHANGED <<coreVars, gateVars, tarVars, outVars, fwdVars, cmdVars, pollVars>>

FileCreated(path) ==
  /\ bkPos = "exported" /\ path \in CandidatePaths
  /\ \A f \in disk : f.path # path
  /\ Cardinality(disk) < MaxFiles
  /\ disk' = disk \cup {File(path, "v2")}
  /\ UNCHANGED <<archive, bkPos, tree0, before>>
  /\ UNCHANGED <<coreVars, gateVars, tarVars, outVars, fwdVars, cmdVars, pollVars>>

\* where tar.x with cwd /data writes an entry
targetOf(e) == Resolve(Path(TRUE, DataRoot.segs \o e.path)).segs

\* a variant that clears the volume and then unpacks
extractMirror(files, entries) ==
  {File(targetOf(entries[i]), entries[i].bytes) : i \in 1..Len(entries)}

\* tar.x with the filter (5572-5582) over a run of entries: an entry the
\* filter passes replaces what is at its path, nothing else is touched
RECURSIVE extract(_, _)
extract(files, entries) ==
  IF entries = <<>> THEN files
  ELSE LET e == Head(entries)
           after == IF looksSafeTarPath(JoinSlash(e.path))
                    THEN {f \in files : f.path # targetOf(e)}
                           \cup {File(targetOf(e), e.bytes)}
                    ELSE files
       IN extract(after, Tail(entries))

\* app.post("/setup/import") (5542-5597) given the archive of the export;
\* tar.x fails after k entries, or goes through all of them
Import(k) ==
  /\ bkPos \in {"exported", "imported", "partial"}
  /\ k \in 0..Len(archive)
  /\ IF ~isUnderDir(STATE_DIR, DataRoot) \/ ~isUnderDir(WORKSPACE_DIR, DataRoot)
     THEN /\ bkPos' = "refused"
          /\ UNCHANGED <<disk, before>>
     ELSE /\ before' = disk
          /\ disk' = extract(disk, SubSeq(archive, 1, k))
          /\ bkPos' = IF k = Len(archive) THEN "imported" ELSE "partial"
  /\ UNCHANGED <<archive, tree0>>
  /\ UNCHANGED <<coreVars, gateVars, tarVars, outVars, fwdVars, cmdVars, pollVars>>

\* ------------------------------------------------------------------ forwarding to the gateway

\* the catch-all has handed request r to proxy.web (5631) and nothing has
\* come of it yet
InProxy(r) ==
  /\ kind[r] = "proxy" /\ pc[r] = "done" /\ resp[r] = Resp(200, <<"proxied">>)
  /\ ~fwd[r].errored /\ ~fwd[r].responded

\* a request outside /setup comes to the catch-all (5617-5632)
Forward(r, dr) ==
  /\ catchAll(r, FALSE, dr)
  /\ fwd' = [fwd EXCEPT ![r] = [errored |-> FALSE, responded |-> FALSE]]
  /\ UNCHANGED <<fwdErrors, gateVars, tarVars, outVars, bakVars, cmdVars, pollVars>>

\* the gateway answers and the proxy copies its response to the client
UpstreamResponse(r) ==
  /\ InProxy(r)
  /\ portOwner # 0
  /\ fwd' = [fwd EXCEPT ![r].responded = TRUE]
  /\ UNCHANGED <<fwdErrors, coreVars, gateVars, tarVars, outVars, bakVars, cmdVars, pollVars>>

\* proxy.on("error") (5606-5615): the connection to the gateway failed; the
\* listener logs the error and counts it, and writes nothing to the response
ProxyErrorEvent(r) ==
  /\ InProxy(r)
  /\ fwdErrors' = fwdErrors + 1
  /\ fwd' = [fwd EXCEPT ![r].errored = TRUE]
  /\ UNCHANGED <<coreVars, gateVars, tarVars, outVars, bakVars, cmdVars, pollVars>>

\* ------------------------------------------------------------------ runCmd

Cmds == 1..MaxCmds

\* how a subprocess behaves: it ends by itself, it ends only when signalled,
\* it ends only when killed, or it could not be spawned
Natures == {"finishes", "hangs", "ignoresTerm", "noSpawn"}

\* proc: "none", "running", "exited" (its streams still open), "closed" or
\* "failed"; timer: "none", "armed", "cleared", "grace" (the 5 s timer is
\* pending) or "done"; killed is proc.killed; code is what the promise
\* resolved with, -1 while it is pending; by is the request awaiting it, if
\* any
NoCmd ==
  [proc |-> "none", nature |-> "", timer |-> "none", timedOut |-> FALSE,
   killed |-> FALSE, signals |-> <<>>, code |-> -1, by |-> 0]

Sent(c, sig) == \E k \in 1..Len(c.signals) : c.signals[k] = sig

\* proc.kill(sig): the signal is delivered to a live process, and proc.killed
\* is set when it was delivered
kill(c, sig) ==
  IF c.proc = "running"
  THEN [c EXCEPT !.signals = Append(@, sig), !.killed = TRUE]
  ELSE c

\* invocation i is the next one
FreeCmd(i) ==
  /\ cmds[i].proc = "none"
  /\ \A j \in Cmds : j < i => cmds[j].proc # "none"

\* runCmd (3945-3979) up to its return: the subprocess is spawned and the
\* timer armed, for request r (0: a caller that is not followed)
runCmd(i, timed, nature, r) ==
  cmds' = [cmds EXCEPT ![i] = [NoCmd EXCEPT !.proc = "running", !.nature = nature,
                                           !.timer = IF timed THEN "armed" ELSE "none",
                                           !.by = r]]

\* a handler other than console/run calls runCmd
RunCmd(i, timed, nature) ==
  /\ FreeCmd(i)
  /\ runCmd(i, timed, nature, 0)
  /\ UNCHANGED <<coreVars, gateVars, tarVars, outVars, bakVars, fwdVars, pollVars>>

\* proc.on("error") (3982-3986)
CmdSpawnError(i) ==
  /\ cmds[i].proc = "running" /\ cmds[i].nature = "noSpawn"
  /\ cmds' = [cmds EXCEPT ![i].proc = "failed", ![i].code = 127,
                          ![i].timer = IF @ = "armed" THEN "cleared" ELSE @]
  /\ UNCHANGED <<coreVars, gateVars, tarVars, outVars, bakVars, fwdVars, pollVars>>

\* the timeout callback (3969-3978, outer)
CmdTimeout(i) ==
  /\ cmds[i].timer = "armed" /\ cmds[i].nature # "noSpawn"
  /\ cmds' = [cmds EXCEPT ![i] = [kill(@, "SIGTERM") EXCEPT !.timedOut = TRUE,
                                                             !.timer = "grace"]]
  /\ UNCHANGED <<coreVars, gateVars, tarVars, outVars, bakVars, fwdVars, pollVars>>

\* the callback 5 s later (3973-3977)
CmdGrace(i) ==
  /\ cmds[i].timer = "grace"
  /\ cmds' = [cmds EXCEPT ![i] = [(IF ~@.killed THEN kill(@, "SIGKILL") ELSE @)
                                   EXCEPT !.timer = "done"]]
  /\ UNCHANGED <<coreVars, gateVars, tarVars, outVars, bakVars, fwdVars, pollVars>>

\* the subprocess ends
CmdExit(i) ==
  /\ cmds[i].proc = "running"
  /\ \/ cmds[i].nature = "finishes"
     \/ cmds[i].nature = "hangs" /\ cmds[i].signals # <<>>
     \/ cmds[i].nature = "ignoresTerm" /\ Sent(cmds[i], "SIGKILL")
  /\ cmds' = [cmds EXCEPT ![i].proc = "exited"]
  /\ UNCHANGED <<coreVars, gateVars, tarVars, outVars, bakVars, fwdVars, pollVars>>

ExitCodes == {0, 1}

\* proc.on("close") (3988-3996)
CmdClose(i, code) ==
  /\ cmds[i].proc = "exited"
  /\ cmds' = [cmds EXCEPT ![i].proc = "closed",
                          ![i].timer = IF @ = "armed" THEN "cleared" ELSE @,
                          ![i].code = IF cmds[i].timedOut THEN 124 ELSE code]
  /\ UNCHANGED <<coreVars, gateVars, tarVars, outVars, bakVars, fwdVars, pollVars>>

\* ------------------------------------------------------------------ the readiness wait

\* waitForGatewayReady({ timeoutMs: 20_000 }) (2566), sleep(250) (2497) and
\* the three paths probed in each round (2484)
readyTimeoutMs == 20000
pollIntervalMs == 250
ProbePaths == 3

\* what is behind the gateway's port: nothing (the connection is refused: the
\* child is not listening yet, or has exited), a socket that accepts the
\* connection and sends no response, or a gateway that answers
Peers == {"down", "silent", "up"}

NoPoll == [pc |-> "idle", elapsed |-> 0, path |-> 1, peer |-> "down"]

InFlight == poll.pc \in {"check", "fetch", "sleep"}

PollFrame == UNCHANGED <<coreVars, gateVars, tarVars, outVars, bakVars, fwdVars, cmdVars>>

\* waitForGatewayReady is called: start = Date.now() (2479-2480)
WaitBegin(peer) ==
  /\ poll.pc = "idle"
  /\ poll' = [NoPoll EXCEPT !.pc = "check", !.peer = peer]
  /\ PollFrame

\* while (Date.now() - start < timeoutMs) (2481), and `return false` (2499)
LoopCheck ==
  /\ poll.pc = "check"
  /\ poll' = IF poll.elapsed < readyTimeoutMs
             THEN [poll EXCEPT !.pc = "fetch", !.path = 1]
             ELSE [poll EXCEPT !.pc = "timedOut"]
  /\ PollFrame

\* await fetch(...) resolved: `if (res) return true` (2487-2489)
FetchAnswered ==
  /\ poll.pc = "fetch" /\ poll.peer = "up"
  /\ poll' = [poll EXCEPT !.pc = "ready"]
  /\ PollFrame

\* await fetch(...) rejected, `catch { // try next }` (2490-2492): the
\* connection was refused, or the runtime gave the request up; after the
\* last path the round ends in sleep(250) (2497)
FetchRejected ==
  /\ poll.pc = "fetch" /\ poll.peer # "up"
  /\ poll' = IF poll.path < ProbePaths
             THEN [poll EXCEPT !.path = @ + 1]
             ELSE [poll EXCEPT !.pc = "sleep"]
  /\ PollFrame

\* time passes while a fetch is pending on a peer that does not answer: the
\* call carries no signal and no timeout of its own (2487)
FetchPending ==
  /\ poll.pc = "fetch" /\ poll.peer = "silent"
  /\ poll.elapsed < readyTimeoutMs + MaxOverrun * pollIntervalMs
  /\ poll' = [poll EXCEPT !.elapsed = @ + pollIntervalMs]
  /\ PollFrame

\* sleep(250) has elapsed (2497)
PollSleepDone ==
  /\ poll.pc = "sleep"
  /\ poll' = [poll EXCEPT !.pc = "check", !.elapsed = @ + pollIntervalMs]
  /\ PollFrame

\* the child starts to listen, stalls, answers or exits while the wait goes on
PeerChange(peer) ==
  /\ InFlight /\ poll.peer # peer
  /\ poll' = [poll EXCEPT !.peer = peer]
  /\ PollFrame

\* ------------------------------------------------------------------ console/run

\* a variant that lets every command name through
AnyConsoleCommand == STRING

\* ALLOWED_CONSOLE_COMMANDS (4304-4370)
ALLOWED_CONSOLE_COMMANDS ==
  {"gateway.restart", "gateway.stop", "gateway.start", "gateway.probe",
   "openclaw.version", "openclaw.status", "openclaw.status.all", "openclaw.health",
   "openclaw.doctor", "openclaw.doctor.fix", "openclaw.update.check",
   "openclaw.update.run", "openclaw.logs.tail", "openclaw.logs.follow",
   "openclaw.logs.clear", "openclaw.security.audit", "openclaw.security.audit.deep",
   "openclaw.config.get", "openclaw.config.list", "openclaw.config.validate",
   "openclaw.sessions.list", "openclaw.sessions.clear", "openclaw.sessions.active",
   "openclaw.agents.list", "openclaw.agents.status", "openclaw.agents.restart",
   "openclaw.memory.status", "openclaw.memory.stats", "openclaw.memory.clear",
   "openclaw.channels.list", "openclaw.channels.status", "openclaw.channels.test",
   "openclaw.pairing.list", "openclaw.pairing.pending", "wrapper.fix.dirs",
   "wrapper.fix.permissions", "wrapper.env.check", "wrapper.storage.check",
   "wrapper.network.check", "wrapper.troubleshoot", "wrapper.troubleshoot.quick",
   "wrapper.troubleshoot.deep"}

\* command names the console is sent: three lifecycle commands, a CLI
\* helper, and names that are not in the list
Unlisted == {"", "gateway.kill", "sh -c id"}
ConsoleCmds == {"gateway.restart", "gateway.stop", "gateway.start", "openclaw.version"}
                 \cup Unlisted

\* console/run openclaw.version (4403-4406) up to its await
ConsoleCli(r, i, nature) ==
  /\ Free(r) /\ Accept(r)
  /\ FreeCmd(i)
  /\ runCmd(i, FALSE, nature, r)
  /\ Park(r, "cli", "awaitCmd")
  /\ NoEnsure(r)
  /\ UNCHANGED <<supVars, procVars, fsVars, attempts>>
  /\ UNCHANGED <<gateVars, tarVars, outVars, bakVars, fwdVars, pollVars>>

\* (4405) runCmd has resolved
ConsoleCliDone(r, i) ==
  /\ pc[r] = "awaitCmd" /\ cmds[i].by = r /\ cmds[i].code # -1
  /\ Respond(r, "cli", IF cmds[i].code = 0 THEN Resp(200, <<"ok:true">>)
                       ELSE Resp(500, <<"ok:false">>))
  /\ cmds' = [cmds EXCEPT ![i].by = 0]
  /\ UNCHANGED <<supVars, procVars, fsVars, ens, attempt, bumped, rc0, reqCount, attempts>>
  /\ UNCHANGED <<gateVars, tarVars, outVars, bakVars, fwdVars, pollVars>>

\* (4378-4381) the command is not in the list
ConsoleBlocked(r) ==
  /\ Free(r) /\ Accept(r)
  /\ Respond(r, "blocked", Resp(400, <<"Command not allowed">>))
  /\ NoEnsure(r)
  /\ UNCHANGED <<supVars, procVars, fsVars, attempts>>
  /\ UNCHANGED edgeVars

\* app.post("/setup/api/console/run") (4372-5007) for a request that has
\* passed the gate
ConsoleRun(r, cmd, i, nature, dr) ==
  IF cmd \notin ALLOWED_CONSOLE_COMMANDS THEN ConsoleBlocked(r)
  ELSE CASE cmd = "gateway.restart" -> ConsoleRestart(r, dr)
         [] cmd = "gateway.stop" -> ConsoleStop(r)
         [] cmd = "gateway.start" -> ConsoleStart(r, dr)
         [] OTHER -> ConsoleCli(r, i, nature)

\* ------------------------------------------------------------------ specification

InitSup ==
  /\ gatewayProc = 0 /\ gatewayStarting = FALSE
  /\ startCount = 0 /\ restartCount = 0 /\ crashCount = 0
  /\ procState = [p \in Procs |-> "none"]
  /\ termSent = [p \in Procs |-> FALSE]
  /\ portOwner = 0
  /\ configFile \in BOOLEAN
  /\ backups = 0 /\ tmpFiles = 0
  /\ pc = [r \in Slots |-> "idle"]
  /\ kind = [r \in Slots |-> "none"]
  /\ resp = [r \in Slots |-> NoResp]
  /\ ens = [r \in Slots |-> "none"]
  /\ attempt = [r \in Slots |-> 0]
  /\ bumped = [r \in Slots |-> 0]
  /\ rc0 = [r \in Slots |-> 0]
  /\ reqCount = 0 /\ attempts = 0

\* no request under /setup yet
InitGateIdle ==
  /\ now = 0
  /\ authAttempts = [c \in Clients |-> NoEntry]
  /\ last = NoOutcome
  /\ streak = [c \in Clients |-> NoStreak]
  /\ advances = 0 /\ gateCount = 0

\* nothing on disk is followed, no export made
InitBackupIdle ==
  /\ disk = {} /\ archive = <<>> /\ bkPos = "start" /\ tree0 = {} /\ before = {}

\* no request handed to the proxy
InitForwardIdle ==
  /\ fwd = [r \in Slots |-> [errored |-> FALSE, responded |-> FALSE]]
  /\ fwdErrors = 0

\* no subprocess has been run
InitCmdIdle == cmds = [i \in Cmds |-> NoCmd]

\* no readiness wait begun
InitPollIdle == poll = NoPoll

InitEdge ==
  /\ InitGateIdle
  /\ requestCounts = [c \in Clients |-> NoEntry]
  /\ SETUP_PASSWORD = Password
  /\ tarPos = "first" /\ written = {} /\ dropped = 0
  /\ outEndpoint = "" /\ outRaw = <<>> /\ outBody = <<>>
  /\ InitBackupIdle /\ InitForwardIdle /\ InitCmdIdle /\ InitPollIdle

\* the wrapper on its volume
Init ==
  /\ InitSup
  /\ STATE_DIR = DirVolume /\ WORKSPACE_DIR = WorkspaceOf(DirVolume)
  /\ InitEdge

\* the child processes and the in-flight start
Background ==
  \/ \E p \in Procs : ProcListen(p)
  \/ \E p \in Procs, how \in ExitKinds : ProcExit(p, how)
  \/ \E p \in Procs : ProcError(p)
  \/ StartReady
  \/ StartTimeout

\* The supervisor under proxied requests and the console's lifecycle commands.
Next ==
  \/ \E r \in Slots, setup \in BOOLEAN, dr \in EnsureDirs : Proxy(r, setup, dr)
  \/ \E r \in Slots, dr \in EnsureDirs : ConsoleStart(r, dr)
  \/ \E r \in Slots, dr \in EnsureDirs : ConsoleRestart(r, dr)
  \/ \E r \in Slots : ConsoleStop(r)
  \/ \E r \in Slots, dr \in EnsureDirs : SleepDone(r, dr)
  \/ \E r \in Slots : Reset(r)
  \/ Background

Spec == Init /\ [][Next]_vars

\* The supervisor under WebSocket upgrades, with resets of the configuration.
NextUpgrade ==
  \/ \E r \in Slots, dr \in EnsureDirs : Upgrade(r, dr)
  \/ \E r \in Slots : Reset(r)
  \/ Background

SpecUpgrade == Init /\ [][NextUpgrade]_vars

\* Requests forwarded to the gateway, which answers them or cannot be
\* reached.
NextForward ==
  \/ \E r \in Slots, dr \in EnsureDirs : Forward(r, dr)
  \/ \E r \in Slots : UpstreamResponse(r)
  \/ \E r \in Slots : ProxyErrorEvent(r)
  \/ Background

SpecForward == Init /\ [][NextForward]_vars

\* The supervisor under proxied requests and config/raw saves.
NextConfig ==
  \/ \E r \in Slots, n \in ContentLens, b \in BytesPerChar, dr \in EnsureDirs :
       ConfigRaw(r, n, b, dr)
  \/ \E r \in Slots, dr \in EnsureDirs : Proxy(r, FALSE, dr)
  \/ \E r \in Slots, dr \in EnsureDirs : SleepDone(r, dr)
  \/ Background

SpecConfig == Init /\ [][NextConfig]_vars

\* The supervisor under proxied requests and imports, for each way the
\* directories can have been resolved at startup.
InitImport ==
  /\ InitSup
  /\ \E d \in StartupDirs : STATE_DIR = d[1] /\ WORKSPACE_DIR = d[2]
  /\ InitEdge

NextImport ==
  \/ \E r \in Slots : ImportBegin(r)
  \/ \E r \in Slots : ImportStopped(r)
  \/ \E r \in Slots, body \in Bodies, w \in BOOLEAN : ImportBody(r, body, w)
  \/ \E r \in Slots, ok \in BOOLEAN, cfg \in BOOLEAN, dr \in EnsureDirs :
       ImportExtracted(r, ok, cfg, dr)
  \/ \E r \in Slots, dr \in EnsureDirs : Proxy(r, FALSE, dr)
  \/ \E r \in Slots, dr \in EnsureDirs : SleepDone(r, dr)
  \/ Background

SpecImport == InitImport /\ [][NextImport]_vars

\* the wrapper configured, with its gateway up
InitRunning ==
  /\ gatewayProc = 1 /\ gatewayStarting = FALSE
  /\ startCount = 1 /\ restartCount = 0 /\ crashCount = 0
  /\ procState = [p \in Procs |-> IF p = 1 THEN "alive" ELSE "none"]
  /\ termSent = [p \in Procs |-> FALSE]
  /\ portOwner = 1
  /\ configFile = TRUE
  /\ backups = 0 /\ tmpFiles = 0
  /\ pc = [r \in Slots |-> "idle"]
  /\ kind = [r \in Slots |-> "none"]
  /\ resp = [r \in Slots |-> NoResp]
  /\ ens = [r \in Slots |-> "none"]
  /\ attempt = [r \in Slots |-> 0]
  /\ bumped = [r \in Slots |-> 0]
  /\ rc0 = [r \in Slots |-> 0]
  /\ reqCount = 0 /\ attempts = 1

\* the entries a client has after k requests made at time 0, all with a
\* wrong password (right = FALSE) or all with the right one
RECURSIVE AuthAfter(_, _)
AuthAfter(k, right) ==
  IF k = 0 \/ right THEN NoEntry ELSE recordAuthFailure(AuthAfter(k - 1, right), 0)

RECURSIVE StreakAfter(_, _)
StreakAfter(k, right) ==
  IF k = 0 \/ right THEN NoStreak ELSE StreakAfterFailure(StreakAfter(k - 1, right), 0)

\* checkRequestRateLimit has admitted each of them
RequestsAfter(k) ==
  IF k = 0 THEN NoEntry ELSE [requests |-> [i \in 1..k |-> 0], windowStart |-> 0]

\* what a client has done before: nothing, one wrong password short of the
\* lockout, or one request short of the request limit
Histories ==
  {[k |-> 0, right |-> TRUE],
   [k |-> maxAuthAttempts - 1, right |-> FALSE],
   [k |-> maxRequestsPerMinute - 1, right |-> TRUE]}

\* the clients' entries at time 0, with the password set or not
InitClients ==
  /\ SETUP_PASSWORD \in {"", Password}
  /\ \E hs \in [Clients -> Histories] :
       /\ SETUP_PASSWORD = "" => \A c \in Clients : hs[c].k = 0
       /\ authAttempts = [c \in Clients |-> AuthAfter(hs[c].k, hs[c].right)]
       /\ streak = [c \in Clients |-> StreakAfter(hs[c].k, hs[c].right)]
       /\ requestCounts = [c \in Clients |-> RequestsAfter(hs[c].k)]
  /\ now = 0 /\ last = NoOutcome /\ advances = 0 /\ gateCount = 0
  /\ tarPos = "first" /\ written = {} /\ dropped = 0
  /\ outEndpoint = "" /\ outRaw = <<>> /\ outBody = <<>>
  /\ InitBackupIdle /\ InitForwardIdle /\ InitCmdIdle /\ InitPollIdle

\* The administration gate as time passes.
InitGate ==
  /\ InitRunning
  /\ STATE_DIR = DirVolume /\ WORKSPACE_DIR = WorkspaceOf(DirVolume)
  /\ InitClients

NextGate ==
  \/ \E c \in Clients, h \in Headers : GateRequest(c, h)
  \/ \E d \in Deltas : Advance(d)
  \/ Sweep

SpecGate == InitGate /\ [][NextGate]_vars

\* The administration gate of a wrapper started without SETUP_PASSWORD
\* (2306): each client has sent nothing yet, or is one request short of the
\* request limit.
InitNoPassword ==
  /\ InitRunning
  /\ STATE_DIR = DirVolume /\ WORKSPACE_DIR = WorkspaceOf(DirVolume)
  /\ SETUP_PASSWORD = ""
  /\ authAttempts = [c \in Clients |-> NoEntry]
  /\ streak = [c \in Clients |-> NoStreak]
  /\ \E ks \in [Clients -> {0, maxRequestsPerMinute - 1}] :
       requestCounts = [c \in Clients |-> RequestsAfter(ks[c])]
  /\ now = 0 /\ last = NoOutcome /\ advances = 0 /\ gateCount = 0
  /\ tarPos = "first" /\ written = {} /\ dropped = 0
  /\ outEndpoint = "" /\ outRaw = <<>> /\ outBody = <<>>
  /\ InitBackupIdle /\ InitForwardIdle /\ InitCmdIdle /\ InitPollIdle

SpecNoPassword == InitNoPassword /\ [][NextGate]_vars

\* The routes under /setup.  The wrapper is either not configured, or
\* configured with its gateway up.
InitRoutes ==
  /\ (InitSup /\ ~configFile) \/ InitRunning
  /\ STATE_DIR = DirVolume /\ WORKSPACE_DIR = WorkspaceOf(DirVolume)
  /\ InitClients

NextRoutes ==
  \/ \E c \in Clients, h \in Headers : GateRequest(c, h)
  \/ \E c \in Clients : Healthz(c)
  \/ \E c \in Clients, r \in Slots, dr \in EnsureDirs : SetupUnmatched(c, r, dr)

SpecRoutes == InitRoutes /\ [][NextRoutes]_vars

\* the wrapper after setup, before any request
InitConfigured ==
  /\ InitSup /\ configFile = TRUE
  /\ STATE_DIR = DirVolume /\ WORKSPACE_DIR = WorkspaceOf(DirVolume)
  /\ InitEdge

\* Subprocesses run with and without a timeout.
NextCmd ==
  \/ \E i \in Cmds, timed \in BOOLEAN, nature \in Natures : RunCmd(i, timed, nature)
  \/ \E i \in Cmds : CmdSpawnError(i)
  \/ \E i \in Cmds : CmdTimeout(i)
  \/ \E i \in Cmds : CmdGrace(i)
  \/ \E i \in Cmds : CmdExit(i)
  \/ \E i \in Cmds, code \in ExitCodes : CmdClose(i, code)

SpecCmd == InitConfigured /\ [][NextCmd]_vars

\* The readiness wait of one start attempt.
NextPoll ==
  \/ \E peer \in Peers : WaitBegin(peer)
  \/ LoopCheck
  \/ FetchAnswered
  \/ FetchRejected
  \/ FetchPending
  \/ PollSleepDone
  \/ \E peer \in Peers : PeerChange(peer)

SpecPoll == InitConfigured /\ [][NextPoll]_vars

\* The console's commands.
NextConsole ==
  \/ \E r \in Slots, cmd \in ConsoleCmds, i \in Cmds, dr \in EnsureDirs :
       ConsoleRun(r, cmd, i, "finishes", dr)
  \/ \E r \in Slots, i \in Cmds : ConsoleCliDone(r, i)
  \/ \E r \in Slots, dr \in EnsureDirs : SleepDone(r, dr)
  \/ \E i \in Cmds : CmdExit(i)
  \/ \E i \in Cmds, code \in ExitCodes : CmdClose(i, code)
  \/ \E p \in Procs : ProcListen(p)
  \/ StartReady

SpecConsole == Init /\ [][NextConsole]_vars

\* Export and import of the two directories, for each way they can have
\* been set, with up to MaxFiles files on the volume.
InitBackup ==
  /\ InitSup /\ configFile = TRUE
  /\ \E d \in BackupDirs : STATE_DIR = d[1] /\ WORKSPACE_DIR = d[2]
  /\ InitGateIdle
  /\ requestCounts = [c \in Clients |-> NoEntry]
  /\ SETUP_PASSWORD = Password
  /\ tarPos = "first" /\ written = {} /\ dropped = 0
  /\ outEndpoint = "" /\ outRaw = <<>> /\ outBody = <<>>
  /\ InitForwardIdle /\ InitCmdIdle /\ InitPollIdle
  /\ \E S \in SUBSET CandidatePaths :
       /\ Cardinality(S) <= MaxFiles
       /\ disk = {File(q, "v1") : q \in S}
  /\ archive = <<>> /\ bkPos = "start" /\ tree0 = {} /\ before = {}

NextBackup ==
  \/ Export
  \/ \E q \in AllPaths : FileRemoved(q)
  \/ \E q \in AllPaths : FileChanged(q)
  \/ \E q \in AllPaths : FileCreated(q)
  \/ \E k \in 0..(2 * MaxFiles) : Import(k)

SpecBackup == InitBackup /\ [][NextBackup]_vars

\* The extraction of an archive of two entries.
NextTar == \E p \in EntryPaths, fails \in BOOLEAN : TarEntry(p, fails)

SpecTar == InitConfigured /\ [][NextTar]_vars

\* Subprocess output on the administration endpoints.
NextOut == \E e \in Endpoints, out \in Outputs : AdminOutput(e, out)

SpecOut == InitConfigured /\ [][NextOut]_vars

\* ------------------------------------------------------------------ properties of the supervisor

\* the call of slot r has returned or thrown
Resolved(r) == ens[r] \in {"ok", "timeout", "throw"}

\* the step takes up a new request (every handler's first turn does)
Arrives == reqCount' = reqCount + 1

\* C1: a start attempt spawns at most one child, and all ensureGatewayRunning
\* calls that fall into one start attempt (the call that begins it and the
\* calls made until it settles) end with the same outcome.
C1_SingleFlight ==
  /\ startCount <= attempts
  /\ \A r1, r2 \in Slots :
       (attempt[r1] # 0 /\ attempt[r1] = attempt[r2] /\ Resolved(r1) /\ Resolved(r2))
         => ens[r1] = ens[r2]

\* C6: a request outside /setup is answered 302 to /setup without any effect
\* on the supervisor when the product is not configured; when the start
\* attempt it fell into runs out of its 20 s, it is answered 503 with a body
\* containing "not ready" and has not been forwarded.
C6_RoutingGate ==
  [][/\ \A r \in Slots, dr \in EnsureDirs :
          (Proxy(r, FALSE, dr) /\ ~isConfigured)
            => /\ resp'[r] = Resp(302, <<"/setup">>)
               /\ UNCHANGED <<supVars, procVars>>
     /\ StartTimeout
          => \A r \in Slots :
               (kind[r] = "proxy" /\ attempt[r] # 0 /\ attempt[r] = attempts)
                 => /\ resp'[r].status = 503
                    /\ \E i \in DOMAIN resp'[r].body : resp'[r].body[i] = NotReadyPrefix
    ]_vars

\* C8 as written: gateway.stop with no handle set, and restartGateway with no
\* configuration file, answer without an error and leave the supervisor and
\* the child processes as they were.
C8_Original ==
  [][\A r \in Slots, dr \in EnsureDirs :
       ((ConsoleStop(r) /\ gatewayProc = 0) \/ (ConsoleRestart(r, dr) /\ ~isConfigured))
         => /\ UNCHANGED <<supVars, procVars>>
            /\ pc'[r] = "done" /\ resp'[r] = Resp(200, <<"ok:true">>)
    ]_vars

\* C8, amended: the same, for a restartGateway made with no configuration
\* file and no handle set.
C8_Idempotent ==
  [][(Arrives /\ gatewayProc = 0) =>
       \A r \in Slots, dr \in EnsureDirs :
         (ConsoleStop(r) \/ (ConsoleRestart(r, dr) /\ ~isConfigured))
           => /\ UNCHANGED <<supVars, procVars>>
              /\ pc'[r] = "done" /\ resp'[r] = Resp(200, <<"ok:true">>)
    ]_vars

\* a stop and a restart have been answered in a run that never had a gateway
\* nor, at the restart, a configuration file
C8_Witness ==
  /\ startCount = 0 /\ ~isConfigured
  /\ \E r1, r2 \in Slots :
       /\ kind[r1] = "stop" /\ pc[r1] = "done"
       /\ kind[r2] = "restart" /\ pc[r2] = "done" /\ ens[r2] = "notConfigured"

\* C9: when a gateway.restart that found a process running is answered, with
\* the product configured and its ensureGatewayRunning call successful, the
\* answer is {ok:true}, restartCount is one more than when the request
\* arrived, and /health reports the gateway as running.
C9_RestartWhileRunning ==
  [][\A r \in Slots :
       (/\ kind[r] = "restart" /\ pc[r] \in {"sleep", "awaitStart"}
        /\ pc'[r] = "done" /\ bumped'[r] >= 1
        /\ isConfigured /\ ens'[r] = "ok")
         => /\ resp'[r] = Resp(200, <<"ok:true">>)
            /\ restartCount' = rc0[r] + 1
            /\ gatewayProc' # 0
    ]_vars

\* ------------------------------------------------------------------ properties of import and config/raw

\* the path, resolved, lies in the data volume /data
UnderVolume(p) == LET q == Resolve(p) IN Len(q.segs) >= 1 /\ q.segs[1] = "data"

\* C7: an import made while STATE_DIR or WORKSPACE_DIR does not lie under
\* /data is answered 400 at once and changes nothing: no signal, the handle
\* and the counters as they were, no temp file, no extraction.
C7_ImportRefused ==
  [][Arrives =>
       \A r \in Slots :
         (ImportBegin(r) /\ ~(UnderVolume(STATE_DIR) /\ UnderVolume(WORKSPACE_DIR)))
           => /\ pc'[r] = "done" /\ resp'[r].status = 400
              /\ UNCHANGED <<supVars, procVars, fsVars>>
    ]_vars

\* an import has been refused while a gateway was running, for a workspace
\* directory written under /data that resolves outside it
C7_Witness ==
  /\ WORKSPACE_DIR = DirWorkEscape
  /\ reqCount = 2 /\ kind[1] = "proxy" /\ pc[1] = "done" /\ resp[1].status = 200
  /\ gatewayProc # 0 /\ ~termSent[gatewayProc]
  /\ kind[2] = "import" /\ pc[2] = "done" /\ resp[2].status = 400

\* C10: a config/raw POST whose content is longer than 500,000 characters is
\* answered 413 and changes nothing: the configuration file and the backups
\* are as before and the gateway is neither signalled nor restarted.
C10_ConfigTooLarge ==
  [][Arrives =>
       \A r \in Slots, n \in ContentLens, b \in BytesPerChar, dr \in EnsureDirs :
         (n > ConfigMaxChars /\ ConfigRaw(r, n, b, dr))
           => /\ pc'[r] = "done" /\ resp'[r].status = 413
              /\ UNCHANGED <<supVars, procVars, fsVars>>
    ]_vars

\* an oversized save has been refused while a configuration file existed and
\* a gateway was running
C10_Witness ==
  /\ reqCount = 2 /\ kind[1] = "proxy" /\ pc[1] = "done" /\ resp[1].status = 200
  /\ isConfigured /\ gatewayProc # 0 /\ ~termSent[gatewayProc]
  /\ kind[2] = "configRaw" /\ pc[2] = "done" /\ resp[2] = Resp(413, <<"Config too large">>)

\* ------------------------------------------------------------------ properties of the administration gate

\* the client has maxAuthAttempts recorded failures in a row, each within
\* the attempt window of the one before, and the lockout duration has not
\* elapsed since the last of them
LockedOut(c) ==
  /\ streak[c].n >= maxAuthAttempts
  /\ now - streak[c].lockAt < authLockoutMs

C4_GateFirst == last.served # "none" => last.passed

\* ------------------------------------------------------------------ properties of the archive filter

\* p has a ".." between two slashes, or between a slash and an end of p
HasDotDotSegment(p) ==
  \E i \in 1..(Len(p) - 1) :
    /\ p[i] = "." /\ p[i + 1] = "."
    /\ i = 1 \/ p[i - 1] = "/"
    /\ i + 1 = Len(p) \/ p[i + 2] = "/"

\* the paths that must not be written: absolute, traversing, or with a drive
Unsafe(p) ==
  \/ Len(p) >= 1 /\ p[1] = "/"
  \/ HasDotDotSegment(p)
  \/ Len(p) >= 3 /\ p[1] = "c" /\ p[2] = ":" /\ p[3] \in {"/", "\\"}

\* the paths that are none of these, for names that do not start with a
\* backslash, pass the filter
SafeEntriesPass ==
  \A p \in EntryPaths :
    (~Unsafe(p) /\ p # <<>> /\ p[1] # "\\") => looksSafeTarPath(p)

C5_Redacted == outBody = redactSecrets(outRaw)

\* ------------------------------------------------------------------ properties of export and import

ArchiveTargets == {targetOf(archive[i]) : i \in 1..Len(archive)}

\* the steps of Import are those that leave bkPos at one of its outcomes
ImportStep == bkPos' \in {"imported", "partial", "refused"}

C12_SuccessClears ==
  [][gateCount' # gateCount =>
       /\ last'.passed => authAttempts'[last'.client] = NoEntry
       /\ last'.audit = <<"AUTH_RATE_LIMITED">>
            => streak[last'.client].n >= maxAuthAttempts]_vars

\* a client one failure short of the lockout has authenticated and then
\* failed twice, all at time 0: its entry counts two attempts and no lockout
C12_Witness ==
  /\ now = 0 /\ last.status = 401 /\ last.audit = <<"AUTH_FAILURE">>
  /\ Len(requestCounts[last.client].requests) = maxAuthAttempts - 1 + 3
  /\ authAttempts[last.client] # NoEntry
  /\ authAttempts[last.client].attempts = 2
  /\ authAttempts[last.client].lockedUntil = 0

\* C13: a request to the gate drops from its client's list no timestamp
\* that is younger than the request window.
C13_WindowKept ==
  [][gateCount' # gateCount =>
       \A c \in Clients :
         requestCounts[c] # NoEntry =>
           \A i \in 1..Len(requestCounts[c].requests) :
             now - requestCounts[c].requests[i] < requestWindowMs
               => /\ requestCounts'[c] # NoEntry
                  /\ \E j \in 1..Len(requestCounts'[c].requests) :
                       requestCounts'[c].requests[j] = requestCounts[c].requests[i]]_vars

\* ------------------------------------------------------------------ properties of ensureGatewayRunning

\* The statement as the specification has it: with the handle set, a call
\* returns success whether or not the configuration file exists.
C14_Original ==
  [][(Arrives /\ gatewayProc # 0) =>
       \A r \in Slots, dr \in EnsureDirs :
         ConsoleStart(r, dr) => ens'[r] = "ok"]_vars

\* C14: with the handle set, a call of ensureGatewayRunning returns at once,
\* without spawning and without waiting: success when the configuration file
\* exists, and "not configured" when it does not, although a gateway runs.
C14_HandleSet ==
  [][(Arrives /\ gatewayProc # 0) =>
       \A r \in Slots, dr \in EnsureDirs :
         (ConsoleStart(r, dr) \/ (isConfigured /\ Proxy(r, FALSE, dr)))
           => /\ ens'[r] = IF isConfigured THEN "ok" ELSE "notConfigured"
              /\ pc'[r] = "done"
              /\ procState' = procState /\ gatewayProc' = gatewayProc
              /\ startCount' = startCount /\ attempts' = attempts
              /\ gatewayStarting' = gatewayStarting]_vars

\* gateway.start has been answered "not configured" while the gateway
\* spawned before the reset is alive and the handle refers to it
C14_Witness ==
  \E r \in Slots :
    /\ kind[r] = "start" /\ pc[r] = "done" /\ ens[r] = "notConfigured"
    /\ ~configFile
    /\ gatewayProc # 0 /\ procState[gatewayProc] = "alive"

\* ------------------------------------------------------------------ properties of the import and the gateway

\* C15: while an import is extracting, the handle is null and no gateway
\* process is alive.
C15_NoGatewayWhileExtracting ==
  (\E r \in Slots : pc[r] = "extract")
    => /\ gatewayProc = 0
       /\ \A p \in Procs : procState[p] # "alive"

\* ------------------------------------------------------------------ properties of the upgrade handler

\* C17: an upgrade is handed to the proxy exactly when the product was
\* configured and the handler's ensureGatewayRunning call succeeded, and its
\* socket is destroyed otherwise; an upgrade that arrives when the product
\* is not configured is destroyed at once and spawns nothing.
C17_UpgradeGate ==
  /\ [](\A r \in Slots :
          (kind[r] = "upgrade" /\ pc[r] = "done")
            => /\ ens[r] \in {"none", "ok", "timeout", "throw"}
               /\ resp[r] = IF ens[r] = "ok" THEN Resp(101, <<"proxy.ws">>)
                             ELSE Resp(0, <<"socket destroyed">>))
  /\ [][Arrives =>
         \A r \in Slots, dr \in EnsureDirs :
           (~isConfigured /\ Upgrade(r, dr))
             => /\ resp'[r] = Resp(0, <<"socket destroyed">>)
                /\ ens'[r] = "none"
                /\ UNCHANGED <<supVars, procVars>>]_vars

\* one upgrade has been handed to the proxy after the gateway it started
\* became ready; another, made after a reset, had its socket destroyed
\* while that gateway runs
C17_Witness ==
  \E r, q \in Slots :
    /\ kind[r] = "upgrade" /\ pc[r] = "done" /\ resp[r] = Resp(101, <<"proxy.ws">>)
    /\ attempt[r] > 0
    /\ kind[q] = "upgrade" /\ pc[q] = "done" /\ resp[q] = Resp(0, <<"socket destroyed">>)
    /\ ens[q] = "none" /\ ~configFile
    /\ gatewayProc # 0 /\ procState[gatewayProc] = "alive"

\* ------------------------------------------------------------------ properties of the Basic-auth check

ReachesAuthCheck(c) ==
  /\ checkRateLimit(authAttempts[c], now).allowed
  /\ checkRequestRateLimit(requestCounts[c], now).allowed
  /\ SETUP_PASSWORD # ""

SweepRemoves ==
  /\ gateCount' = gateCount /\ now' = now
  /\ \E c \in Clients : requestCounts[c] # NoEntry /\ requestCounts'[c] = NoEntry

\* C19: a run of the cleanup timer that removes records leaves no auth
\* entry whose client has sent nothing for longer than the lockout and the
\* attempt window together, whether or not that entry ever reached the
\* lockout.
C19_StaleEntriesSwept ==
  [][SweepRemoves =>
       \A c \in Clients :
         (/\ authAttempts[c] # NoEntry
          /\ now - authAttempts[c].lastAttempt > authLockoutMs + authWindowMs)
           => authAttempts'[c] = NoEntry]_vars

\* ------------------------------------------------------------------ properties of forwarding

\* C20: a forwarded request whose proxy error has been logged has been
\* sent a response.
C20_ErrorAnswered ==
  \A r \in Slots : fwd[r].errored => fwd[r].responded

\* ------------------------------------------------------------------ properties of runCmd

\* C21: once the 5 s after the timeout have passed, a subprocess that is
\* still alive has been sent SIGKILL.
C21_ForceKill ==
  \A i \in Cmds :
    (cmds[i].timer = "done" /\ cmds[i].proc = "running") => Sent(cmds[i], "SIGKILL")

\* ------------------------------------------------------------------ properties of console/run

\* C22: a console/run request whose command is not in the list is answered
\* 400 and changes neither the supervisor, nor the child processes, nor the
\* subprocesses.
C22_AllowlistOr400 ==
  [][Arrives =>
       \A r \in Slots :
         Free(r) =>
           \A cmd \in Unlisted, i \in Cmds, dr \in EnsureDirs :
             ConsoleRun(r, cmd, i, "finishes", dr)
               => /\ resp'[r] = Resp(400, <<"Command not allowed">>)
                  /\ UNCHANGED <<supVars, procVars, cmds>>]_vars

\* a command outside the list has been answered 400 while the gateway that
\* gateway.start spawned is alive and the handle refers to it
C22_Witness ==
  \E r \in Slots :
    /\ kind[r] = "blocked" /\ pc[r] = "done" /\ resp[r].status = 400
    /\ gatewayProc # 0 /\ procState[gatewayProc] = "alive"
    /\ \E q \in Slots : kind[q] = "start"

\* ------------------------------------------------------------------ properties of the supervisor

\* process p is spawned in the step
Spawned(p) == procState[p] # "alive" /\ procState'[p] = "alive"

C25_Counters ==
  [][/\ startCount' = startCount + Cardinality({p \in Procs : Spawned(p)})
     /\ procState' # procState =>
          \A p \in Procs :
            /\ \A how \in ExitKinds :
                 ProcExit(p, how)
                   => /\ crashCount' = crashCount + (IF how = "clean" THEN 0 ELSE 1)
                      /\ gatewayProc' = 0
            /\ ProcError(p) => (crashCount' = crashCount /\ gatewayProc' = 0)
     /\ crashCount' # crashCount
          => \E p \in Procs : procState[p] = "alive" /\ procState'[p] = "exited"]_vars

\* two gateways were spawned and both are gone, one by a clean exit and one
\* by a crash
C25_Witness ==
  /\ startCount = 2 /\ crashCount = 1 /\ restartCount = 0
  /\ \A p \in 1..2 : procState[p] = "exited" /\ ~termSent[p]
  /\ gatewayProc = 0

\* C26: a gateway process is spawned only in the turn of a request or
\* command that calls ensureGatewayRunning (its arrival, or the turn in
\* which a restart comes back from its wait); the error callback, the exit
\* callback and the readiness deadline spawn nothing, signal nothing and
\* begin no start attempt; and the readiness deadline leaves the handle and
\* the child as they were.
C26_NoSelfHealing ==
  [][/\ procState' # procState =>
          /\ (\E p \in Procs : Spawned(p))
                => \/ Arrives
                   \/ \E r \in Slots : /\ pc[r] = "sleep" /\ kind[r] = "restart"
                                        /\ pc'[r] # "sleep"
          /\ \A p \in Procs :
                (ProcError(p) \/ \E how \in ExitKinds : ProcExit(p, how))
                  => /\ UNCHANGED <<startCount, restartCount, termSent, attempts,
                                    gatewayStarting, reqVars>>
                     /\ \A q \in Procs : ~Spawned(q)
     /\ gatewayStarting' # gatewayStarting =>
          (StartTimeout
             => UNCHANGED <<gatewayProc, procVars, startCount, restartCount,
                            crashCount, attempts>>)]_vars

\* one gateway crashed and nothing replaced it until the next request; the
\* second missed the readiness deadline and is still running, unsignalled,
\* behind the handle
C26_Witness ==
  /\ startCount = 2 /\ crashCount = 1
  /\ procState[1] = "exited"
  /\ gatewayProc = 2 /\ procState[2] = "alive" /\ ~termSent[2]
  /\ ~gatewayStarting
  /\ \E r \in Slots : pc[r] = "done" /\ ens[r] = "timeout" /\ attempt[r] = 2

\* the handler in slot r evaluates ensureGatewayRunning in this step: on
\* arrival (catch-all, gateway.start, gateway.restart without a process) or
\* on coming back from the restart's wait
EvaluatesEnsure(r) ==
  \/ /\ Arrives /\ Free(r)
     /\ kind'[r] \in {"proxy", "proxySetup", "start", "restart"}
     /\ pc'[r] # "sleep"
  \/ pc[r] = "sleep" /\ kind[r] = "restart" /\ pc'[r] # "sleep"

\* C27: a start attempt begins only while no attempt is in flight; an
\* attempt that ends (ready, deadline, or startGateway throwing) leaves the
\* in-flight reference null and nobody waiting on it, and no failed outcome
\* belongs to the attempt in flight; and an ensureGatewayRunning call that
\* finds the product configured, the handle null and no attempt in flight
\* begins a new attempt, whatever the earlier attempts came to.
C27_OneAttemptInFlight ==
  [][/\ gatewayStarting =>
          \A r \in Slots : attempt[r] = attempts => ens[r] \notin {"timeout", "throw"}
     /\ (\E r \in Slots : pc[r] = "awaitStart") => gatewayStarting
     /\ attempts' # attempts =>
          /\ ~gatewayStarting
          /\ attempts' = attempts + 1
          /\ startCount' = startCount => ~gatewayStarting'
     /\ (gatewayStarting /\ ~gatewayStarting') =>
          \A r \in Slots : pc'[r] # "awaitStart"
     /\ \A r \in Slots :
          (EvaluatesEnsure(r) /\ isConfigured /\ ~gatewayStarting
             /\ (gatewayProc = 0 \/ pc[r] = "sleep"))
            => /\ attempts' = attempts + 1
               /\ attempt'[r] = attempts']_vars

\* the third attempt is in flight: one attempt ended in startGateway
\* throwing and the second at the readiness deadline
C27_Witness ==
  /\ attempts = 3 /\ startCount = 2 /\ gatewayStarting
  /\ \E r1, r2 \in Slots :
       /\ attempt[r1] = 2 /\ ens[r1] = "timeout"
       /\ attempt[r2] = 3 /\ pc[r2] = "awaitStart"

\* ------------------------------------------------------------------ properties of the gate's order

\* C28: a request of a client under lockout is answered 429 by the lockout
\* check, adds no timestamp to the client's request window and has its
\* credentials left unevaluated (no failure, no success); a request of a
\* client not under lockout whose request window is full is answered 429 by
\* the request-volume check and records neither a failure nor a success;
\* and only a request that passes both checks is counted in the window and
\* has its credentials looked at.
C28_GateOrder ==
  [][gateCount' # gateCount =>
       LET c == last'.client
           locked == ~checkRateLimit(authAttempts[c], now).allowed
           full == ~checkRequestRateLimit(requestCounts[c], now).allowed
       IN /\ locked
               => /\ last'.status = 429 /\ ~last'.passed
                  /\ last'.audit = <<"AUTH_RATE_LIMITED">>
                  /\ UNCHANGED <<requestCounts, authAttempts, streak>>
          /\ (~locked /\ full)
               => /\ last'.status = 429 /\ ~last'.passed
                  /\ last'.audit = <<"REQUEST_RATE_LIMITED">>
                  /\ UNCHANGED <<authAttempts, streak>>
                  /\ Len(requestCounts'[c].requests) <= Len(requestCounts[c].requests)
          /\ (~locked /\ ~full)
               => /\ last'.status # 429
                  /\ requestCounts'[c] # NoEntry
                  /\ requestCounts'[c].requests[Len(requestCounts'[c].requests)] = now]_vars

\* a client with one failure on record has had a request with the right
\* password turned away by the request-volume check, and the failure is
\* still on record
C28_Witness ==
  /\ last.status = 429 /\ last.audit = <<"REQUEST_RATE_LIMITED">> /\ last.correct
  /\ authAttempts[last.client] # NoEntry
  /\ authAttempts[last.client].attempts = 1
  /\ Len(requestCounts[last.client].requests) = maxRequestsPerMinute

\* the whole number n is x thousandths rounded up
RoundedUpSeconds(n, x) == n * 1000 >= x /\ (n - 1) * 1000 < x

\* C29: a 429 of the lockout check carries Retry-After = lockedUntil - now
\* rounded up to whole seconds, from 1 to the lockout duration; a 429 of the
\* request-volume check carries the request window less the age of the
\* oldest timestamp still in the window, rounded up to whole seconds, from
\* 1 to the request window.
C29_RetryAfter ==
  [][gateCount' # gateCount =>
       (last'.status = 429 =>
          LET c == last'.client IN
            IF last'.audit = <<"AUTH_RATE_LIMITED">>
            THEN /\ RoundedUpSeconds(last'.retryAfter, authAttempts[c].lockedUntil - now)
                 /\ last'.retryAfter >= 1
                 /\ last'.retryAfter * 1000 <= authLockoutMs
            ELSE LET kept == Filter(requestCounts[c].requests, now, requestWindowMs) IN
                 /\ last'.audit = <<"REQUEST_RATE_LIMITED">>
                 /\ RoundedUpSeconds(last'.retryAfter, requestWindowMs - (now - kept[1]))
                 /\ last'.retryAfter >= 1
                 /\ last'.retryAfter * 1000 <= requestWindowMs)]_vars

\* a client locked at time 0 has asked one millisecond before the lockout
\* ends and was told to retry after one second
C29_Witness ==
  /\ last.status = 429 /\ last.audit = <<"AUTH_RATE_LIMITED">>
  /\ last.retryAfter = 1
  /\ now = authLockoutMs - 1
  /\ authAttempts[last.client].lockedUntil = authLockoutMs

\* the request just decided took its client into lockout
EntersLockout(c) ==
  /\ checkRateLimit(authAttempts[c], now).allowed
  /\ ~checkRateLimit(authAttempts'[c], now).allowed

\* C30: a request the gate answers 429 or 401, or lets through, emits one
\* audit event for that decision, and one more when it takes its client into
\* lockout; it emits no other.
C30_OneEventPerDecision ==
  [][gateCount' # gateCount =>
       (last'.status \in {429, 401, 200}
          => Len(last'.audit)
               = 1 + (IF EntersLockout(last'.client) THEN 1 ELSE 0))]_vars

\* ------------------------------------------------------------------ properties of the handle under concurrency

\* the gateway process p ends in this step (its exit or error callback runs)
Ends(p) == procState[p] = "alive" /\ procState'[p] = "exited"

\* C31: the exit or error callback of a process that is not the one the
\* handle refers to leaves the handle as it is.
C31_ClearsOwnHandle ==
  [][procState' # procState =>
       \A p \in Procs :
         (Ends(p) /\ gatewayProc # p) => gatewayProc' = gatewayProc]_vars

\* C32: when a restart or a stop comes back from its wait and the handle
\* refers to a process that was never signalled (one spawned during the
\* wait, after the signalled process had exited), the handle is left as it
\* is.
C32_DeferredClearOwn ==
  [][\A r \in Slots :
       (/\ pc[r] = "sleep" /\ pc'[r] # "sleep"
        /\ gatewayProc # 0 /\ ~termSent[gatewayProc])
         => gatewayProc' = gatewayProc]_vars

\* C33: at most one spawned gateway process is alive.
C33_OneAlive == Cardinality({p \in Procs : procState[p] = "alive"}) <= 1

\* the ensureGatewayRunning call of the handler in slot r returns in this step
Returns(r) ==
  /\ pc'[r] = "done"
  /\ pc[r] \in {"awaitStart", "sleep"} \/ (Arrives /\ Free(r))

\* C34: when an ensureGatewayRunning call reports success, no start attempt
\* is still polling and the process the handle refers to is the one
\* answering on the gateway's port.
C34_ReadyBeforeForward ==
  [][\A r \in Slots :
       (Returns(r) /\ ens'[r] = "ok")
         => /\ ~gatewayStarting'
            /\ gatewayProc' # 0 /\ portOwner' = gatewayProc']_vars

\* ------------------------------------------------------------------ properties of the lockout's end

\* the lockout recorded in the auth entry st is over at time t
Expired(st, t) == st # NoEntry /\ st.lockedUntil # 0 /\ t >= st.lockedUntil

\* C35: a request of a client whose lockout is over is not answered by the
\* lockout check; the first wrong password after the lockout makes the
\* client's failure count 1 and leaves the client unlocked, with the old
\* lockedUntil still in the entry; an entry with fewer than
\* maxAuthAttempts failures never blocks; and a client enters lockout only
\* with a count of maxAuthAttempts or more, the count growing by at most one
\* with each request.
C35_FreshAllowance ==
  [][gateCount' # gateCount =>
       LET c == last'.client
           st == authAttempts[c]
           st1 == authAttempts'[c]
       IN /\ Expired(st, now)
               => /\ last'.audit # <<"AUTH_RATE_LIMITED">>
                  /\ (last'.status = 401 /\ last'.basic /\ st.attempts >= maxAuthAttempts)
                       => /\ st1.attempts = 1
                          /\ st1.lockedUntil = st.lockedUntil
                          /\ checkRateLimit(st1, now).allowed
          /\ \A d \in Clients :
               (authAttempts'[d] # NoEntry /\ authAttempts'[d].attempts < maxAuthAttempts)
                 => checkRateLimit(authAttempts'[d], now).allowed
          /\ EntersLockout(c)
               => /\ st1.attempts >= maxAuthAttempts
                  /\ st # NoEntry /\ st.attempts >= maxAuthAttempts - 1
          /\ (st # NoEntry /\ st1 # NoEntry) => st1.attempts <= st.attempts + 1]_vars

\* a client locked at time 0 has, after the lockout ended, failed twice
\* more: its count is 2, the lockedUntil of the old lockout is still in the
\* entry, and it is not locked
C35_Witness ==
  /\ last.status = 401 /\ last.basic
  /\ authAttempts[last.client] # NoEntry
  /\ authAttempts[last.client].attempts = 2
  /\ authAttempts[last.client].lockedUntil = authLockoutMs
  /\ now >= authLockoutMs
  /\ checkRateLimit(authAttempts[last.client], now).allowed

\* C36: a run of the cleanup timer removes no auth entry whose lockout is in
\* force or whose latest failure is inside the attempt window, and no
\* request entry that holds a timestamp inside the request window.
C36_SweepKeepsLive ==
  [][(now' = now /\ gateCount' = gateCount) =>
       \A c \in Clients :
         /\ (/\ authAttempts[c] # NoEntry
             /\ \/ ~checkRateLimit(authAttempts[c], now).allowed
                \/ now - authAttempts[c].lastAttempt <= authWindowMs)
              => authAttempts'[c] = authAttempts[c]
         /\ (/\ requestCounts[c] # NoEntry
             /\ Filter(requestCounts[c].requests, now, requestWindowMs) # <<>>)
              => requestCounts'[c] = requestCounts[c]]_vars

\* ------------------------------------------------------------------ properties of the import's exit paths

\* C37: an import that has signalled the gateway and answers while the
\* product is configured has called restartGateway before its answer.
C37_ImportRestarts ==
  [][\A r \in Slots :
       (/\ kind[r] = "import" /\ pc[r] \in {"body", "extract", "sleep", "awaitStart"}
        /\ pc'[r] = "done"
        /\ \E p \in Procs : termSent[p]
        /\ isConfigured')
         => ens'[r] # "none"]_vars

\* ------------------------------------------------------------------ properties of the gate without a password

\* C38: with no administration password, every request at the gate is
\* answered with an error (500, or 429 from the request-volume check), runs
\* no handler whatever its Authorization header, and records no failure; no
\* client has an auth entry and none is locked out.
C38_NoPasswordNoEntry ==
  /\ [](SETUP_PASSWORD = ""
         => \A c \in Clients :
              authAttempts[c] = NoEntry /\ checkRateLimit(authAttempts[c], now).allowed)
  /\ [][(gateCount' # gateCount /\ SETUP_PASSWORD = "")
         => /\ last'.status \in {500, 429}
            /\ last'.audit # <<"AUTH_RATE_LIMITED">>
            /\ ~last'.passed /\ last'.served = "none"
            /\ UNCHANGED <<authAttempts, streak>>]_vars

\* without a password, a request with the right form of credentials has
\* been answered 500 and a client has used up its request window
C38_Witness ==
  /\ SETUP_PASSWORD = ""
  /\ last.status = 500 /\ last.basic
  /\ \E c \in Clients :
       /\ c # last.client
       /\ requestCounts[c] # NoEntry
       /\ Len(requestCounts[c].requests) = maxRequestsPerMinute

\* ------------------------------------------------------------------ properties of the crash counter

\* C39: the exit of a process the supervisor has sent SIGTERM leaves
\* crashCount as it was.
C39_OwnStopNotACrash ==
  [][procState' # procState =>
       \A p \in Procs :
         (Ends(p) /\ termSent[p]) => crashCount' = crashCount]_vars

\* ------------------------------------------------------------------ properties of the readiness wait

\* C40: a readiness wait still under way has not run longer than the
\* readiness deadline and one poll interval, whatever is behind the port.
C40_EndsAtDeadline ==
  InFlight => poll.elapsed <= readyTimeoutMs + pollIntervalMs

====
